---- MODULE Spec2Model ----
(***************************************************************************)
(* A model of the mirbft state machine core: the write-ahead log store     *)
(* (persisted), and the event dispatcher StateMachine.applyEvent with the  *)
(* components it drives.                                                   *)
(*                                                                         *)
(* Nine specifications are defined.                                        *)
(*   SpecWAL  the persisted type on its own: appendInitialLoad,            *)
(*            appendLogEntry and truncate applied to arbitrary inputs.     *)
(*   Spec     the StateMachine: one action per StateEvent kind.            *)
(*   SpecRecover the StateMachine from Initialize through recovery, then   *)
(*            fed events that bring no ordering progress.                  *)
(*   SpecReqs the allOutstandingReqs type on its own: newOutstandingReqs,  *)
(*            advanceRequests and applyAcks.                               *)
(*   SpecWork the ClientWork type: one consumer and concurrent producers.  *)
(*   SpecWorkFree the ClientWork type with its methods called in any order. *)
(*   SpecEC   persisted.constructEpochChange on loaded logs.                *)
(*   SpecFetch the StateMachine while batches are fetched for a new epoch. *)
(*   SpecClient one Client of the ClientProcessor: Process, Propose and     *)
(*            NextReqNo against a request store that may fail.             *)
(***************************************************************************)
EXTENDS Integers, Sequences, FiniteSets, TLC

VARIABLES
    persisted,   \* persisted{nextIndex, logHead..logTail}: log is the chain from logHead
    walPhase,    \* SpecWAL: "load" (initial bulk load), "run", or "panic"
    walOp,       \* SpecWAL: the last method call and its arguments
    walPrev,     \* SpecWAL: the persisted value before the last call
    walRet,      \* SpecWAL: the actionSet the last call returned
    smState,     \* StateMachine.state
    aborted,     \* a panic has unwound applyEvent: the process is gone
    lastEvent,   \* the StateEvent applied last
    actions,     \* the actionSet applyEvent returned for lastEvent
    checkpointTracker,
    commitState,
    clientTracker,
    batchTracker,
    epochTracker,
    hist,        \* bookkeeping for the properties: what the last event did
    ao,          \* SpecReqs: the allOutstandingReqs, with its network state
    availableList, \* SpecReqs: the acks of clientTracker.availableList, in order
    sequences,   \* SpecReqs: the sequences handed to applyAcks
    reqOp,       \* SpecReqs: the last call and what it returned
    cw,          \* SpecWork: the ClientWork fields readyC and results
    workChans,   \* SpecWork: the channels made so far and which are closed
    consumer,    \* SpecWork: where the consumer is and the channel it holds
    workLog,     \* SpecWork: the acks added and the acks returned, in order
    epochChange, \* SpecEC: the last constructEpochChange call and its result
    clientC,     \* SpecClient: the Client fields requests, reqNoMap, nextReqNo
    requestStore, \* SpecClient: the allocations and requests the store holds
    clientOp     \* SpecClient: the last call, what it returned, and what was reported

walVars == <<walPhase, walOp, walPrev, walRet>>
smVars  == <<smState, aborted, lastEvent, actions, checkpointTracker,
             commitState, clientTracker, batchTracker, epochTracker, hist>>
reqVars == <<ao, availableList, sequences, reqOp>>
workVars == <<cw, workChans, consumer, workLog>>
ecVars  == <<epochChange>>
clVars  == <<clientC, requestStore, clientOp>>
vars    == <<persisted, walVars, smVars, reqVars, workVars, ecVars, clVars>>

-----------------------------------------------------------------------------
(* Bounds of the model *)

MaxSeq   == 4    \* sequence numbers range over 0..MaxSeq
MaxIndex == 5    \* WAL indices range over 0..MaxIndex
MaxLog   == 3    \* the in-memory log holds at most MaxLog records in SpecWAL
MaxLoad  == 2    \* Spec: at most MaxLoad LoadEntry events

Seqs == 0..MaxSeq

-----------------------------------------------------------------------------
(* pb.Persistent: the closed set of log record variants *)

CEntry(seqNo)        == [type |-> "CEntry", seqNo |-> seqNo, epoch |-> 0]
NEntry(seqNo, epoch) == [type |-> "NEntry", seqNo |-> seqNo, epoch |-> epoch]
PEntry(seqNo)        == [type |-> "PEntry", seqNo |-> seqNo, epoch |-> 0]
QEntry(seqNo)        == [type |-> "QEntry", seqNo |-> seqNo, epoch |-> 0]
FEntry(epoch)        == [type |-> "FEntry", seqNo |-> 0, epoch |-> epoch]
Suspect(epoch)       == [type |-> "Suspect", seqNo |-> 0, epoch |-> epoch]

(* actionSet members *)
PersistAction(index, entry) == [kind |-> "persist", index |-> index, entry |-> entry]
TruncateAction(index)       == [kind |-> "truncate", index |-> index]

-----------------------------------------------------------------------------
(* persisted: the write-ahead log store *)

newPersisted == [nextIndex |-> 0, log |-> <<>>]

logEntry(index, entry) == [index |-> index, entry |-> entry]

(* A mutant of appendInitialLoad: the index check is lost. *)
appendInitialLoadUnchecked(p, index, data) ==
    [p     |-> [nextIndex |-> index + 1,
                log       |-> Append(p.log, logEntry(index, data))],
     panic |-> FALSE]

(* The record is linked first; then nextIndex (set to index for the first  *)
(* record) is compared with index, and a mismatch panics.                  *)
appendInitialLoad(p, index, data) ==
    LET nextIndex1 == IF p.log = <<>> THEN index ELSE p.nextIndex
        log1       == Append(p.log, logEntry(index, data))
    IN  IF nextIndex1 # index
        THEN [p |-> [nextIndex |-> nextIndex1, log |-> log1], panic |-> TRUE]
        ELSE [p |-> [nextIndex |-> index + 1, log |-> log1], panic |-> FALSE]

(* A mutant of appendLogEntry: nextIndex is advanced before the persist    *)
(* action is built.                                                        *)
appendLogEntryLateIndex(p, entry) ==
    IF p.log = <<>>
    THEN [p |-> p, actions |-> <<>>, panic |-> TRUE]
    ELSE [p       |-> [nextIndex |-> p.nextIndex + 1,
                       log       |-> Append(p.log, logEntry(p.nextIndex, entry))],
          actions |-> <<PersistAction(p.nextIndex + 1, entry)>>,
          panic   |-> FALSE]

(* p.logTail.next = ... dereferences a nil logTail on an empty log.        *)
appendLogEntry(p, entry) ==
    IF p.log = <<>>
    THEN [p |-> p, actions |-> <<>>, panic |-> TRUE]
    ELSE [p       |-> [nextIndex |-> p.nextIndex + 1,
                       log       |-> Append(p.log, logEntry(p.nextIndex, entry))],
          actions |-> <<PersistAction(p.nextIndex, entry)>>,
          panic   |-> FALSE]

addCEntry(p, cEntry) == appendLogEntry(p, cEntry)

(* A mutant of truncateStops: the CEntry comparison is off by one. *)
truncateStopsStrictC(entry, lowWatermark) ==
    CASE entry.type = "CEntry" -> ~(entry.seqNo <= lowWatermark)
      [] entry.type = "NEntry" -> ~(entry.seqNo <= lowWatermark)
      [] OTHER                 -> FALSE

(* A mutant of truncateStops: the NEntry comparison is off by one. *)
truncateStopsLaxN(entry, lowWatermark) ==
    CASE entry.type = "CEntry" -> ~(entry.seqNo < lowWatermark)
      [] entry.type = "NEntry" -> ~(entry.seqNo < lowWatermark)
      [] OTHER                 -> FALSE

(* The switch of truncate's loop body: TRUE when the loop does not         *)
(* `continue` past the record.                                             *)
truncateStops(entry, lowWatermark) ==
    CASE entry.type = "CEntry" -> ~(entry.seqNo < lowWatermark)
      [] entry.type = "NEntry" -> ~(entry.seqNo <= lowWatermark)
      [] OTHER                 -> FALSE

(* The scan of truncate from position i of the chain: the position of the  *)
(* first record the loop stops at, or 0 when the loop runs off the end.    *)
RECURSIVE truncateScan(_, _, _)
truncateScan(log, i, lowWatermark) ==
    IF i > Len(log) THEN 0
    ELSE IF truncateStops(log[i].entry, lowWatermark) THEN i
    ELSE truncateScan(log, i + 1, lowWatermark)

(* A mutant of truncate: the new head is the record after the one the     *)
(* scan stopped at.                                                        *)
truncatePastRetained(p, lowWatermark) ==
    LET i == truncateScan(p.log, 1, lowWatermark)
    IN  IF i = 0 \/ i = 1
        THEN [p |-> p, actions |-> <<>>]
        ELSE [p       |-> [p EXCEPT !.log = SubSeq(p.log, i + 1, Len(p.log))],
              actions |-> <<TruncateAction(p.log[i].index)>>]

truncate(p, lowWatermark) ==
    LET i == truncateScan(p.log, 1, lowWatermark)
    IN  IF i = 0 \/ i = 1
        THEN [p |-> p, actions |-> <<>>]
        ELSE [p       |-> [p EXCEPT !.log = SubSeq(p.log, i, Len(p.log))],
              actions |-> <<TruncateAction(p.log[i].index)>>]

-----------------------------------------------------------------------------
(* SpecWAL: the persisted type driven directly *)

WalSeqs == 0..(MaxSeq - 2)

WalEntries ==
    {CEntry(s) : s \in WalSeqs} \cup {NEntry(s, 1) : s \in WalSeqs}
        \cup {PEntry(1), FEntry(0)}

NoOp == [op |-> "none", index |-> 0, lw |-> 0, entry |-> FEntry(0)]

HasCEntry(log) == \E i \in 1..Len(log) : log[i].entry.type = "CEntry"

SMInitValues ==
    /\ smState = "smUninitialized"
    /\ aborted = FALSE
    /\ lastEvent = [type |-> "none"]
    /\ actions = <<>>
    /\ checkpointTracker = [state |-> "none"]
    /\ commitState = [state |-> "none"]
    /\ clientTracker = [state |-> "none"]
    /\ batchTracker = [state |-> "none"]
    /\ epochTracker = [state |-> "none"]
    /\ hist = [state |-> "none"]

ReqInitValues ==
    /\ ao = [state |-> "none"]
    /\ availableList = <<>>
    /\ sequences = <<>>
    /\ reqOp = [op |-> "none"]

EcInitValues ==
    /\ epochChange = [op |-> "none"]

ClInitValues ==
    /\ clientC = [state |-> "none"]
    /\ requestStore = [state |-> "none"]
    /\ clientOp = [op |-> "none"]

WorkInitValues ==
    /\ cw = [state |-> "none"]
    /\ workChans = [state |-> "none"]
    /\ consumer = [state |-> "none"]
    /\ workLog = [state |-> "none"]

(* recoverLog's walk from position i.  lastCEntry is the sequence number   *)
(* of the last CEntry seen, -1 for the nil pointer.  assertNotEqualf       *)
(* compares the typed nil pointer with the untyped nil and never fails;    *)
(* at an FEntry lastCEntry.SeqNo then dereferences the nil pointer.        *)
RECURSIVE recoverLogIterate(_, _, _, _, _)
recoverLogIterate(log, i, p, lastCEntry, acts) ==
    IF i > Len(log)
    THEN [p |-> p, actions |-> acts, panic |-> FALSE, lastCEntry |-> lastCEntry]
    ELSE LET e == log[i].entry
         IN  CASE e.type = "CEntry" ->
                    recoverLogIterate(log, i + 1, p, e.seqNo, acts)
               [] e.type = "FEntry" ->
                    IF lastCEntry = -1
                    THEN [p |-> p, actions |-> acts, panic |-> TRUE,
                          lastCEntry |-> lastCEntry]
                    ELSE LET t == truncate(p, lastCEntry)
                         IN  recoverLogIterate(log, i + 1, t.p, lastCEntry,
                                               acts \o t.actions)
               [] OTHER ->
                    recoverLogIterate(log, i + 1, p, lastCEntry, acts)

(* A mutant of recoverLog: each FEntry truncates to the sequence number    *)
(* above the last checkpoint's.                                            *)
RECURSIVE recoverLogIterateAbove(_, _, _, _, _)
recoverLogIterateAbove(log, i, p, lastCEntry, acts) ==
    IF i > Len(log)
    THEN [p |-> p, actions |-> acts, panic |-> FALSE, lastCEntry |-> lastCEntry]
    ELSE LET e == log[i].entry
         IN  CASE e.type = "CEntry" ->
                    recoverLogIterateAbove(log, i + 1, p, e.seqNo, acts)
               [] e.type = "FEntry" ->
                    IF lastCEntry = -1
                    THEN [p |-> p, actions |-> acts, panic |-> TRUE,
                          lastCEntry |-> lastCEntry]
                    ELSE LET t == truncate(p, lastCEntry + 1)
                         IN  recoverLogIterateAbove(log, i + 1, t.p, lastCEntry,
                                                    acts \o t.actions)
               [] OTHER ->
                    recoverLogIterateAbove(log, i + 1, p, lastCEntry, acts)

recoverLogAbove(m) ==
    recoverLogIterateAbove(m.persisted.log, 1, m.persisted, -1, <<>>)

recoverLog(m) == recoverLogIterate(m.persisted.log, 1, m.persisted, -1, <<>>)

WalInit ==
    /\ persisted = newPersisted
    /\ walPhase = "load"
    /\ walOp = NoOp
    /\ walPrev = newPersisted
    /\ walRet = <<>>
    /\ SMInitValues
    /\ ReqInitValues
    /\ WorkInitValues
    /\ EcInitValues
    /\ ClInitValues

(* StateEvent_LoadEntry reaches appendInitialLoad while the machine loads. *)
WalAppendInitialLoad ==
    /\ walPhase = "load"
    /\ Len(persisted.log) < MaxLog
    /\ \E index \in 0..MaxIndex, data \in WalEntries :
         LET r == appendInitialLoad(persisted, index, data)
         IN  /\ persisted' = r.p
             /\ walPhase' = IF r.panic THEN "panic" ELSE "load"
             /\ walOp' = [op |-> "load", index |-> index, lw |-> 0, entry |-> data]
             /\ walPrev' = persisted
             /\ walRet' = <<>>
    /\ UNCHANGED <<smVars, reqVars, workVars, ecVars, clVars>>

(* StateEvent_CompleteInitialization: reinitialize runs recoverLog, which  *)
(* truncates the log at each FEntry and panics at an FEntry that has no   *)
(* CEntry before it; the commit state then needs the last checkpoint of   *)
(* the log.                                                                *)
WalLoadCompleted ==
    /\ walPhase = "load"
    /\ LET r == recoverLog([persisted |-> persisted])
       IN  /\ persisted' = r.p
           /\ walPhase' = IF r.panic \/ r.lastCEntry = -1 THEN "panic" ELSE "run"
           /\ walOp' = [NoOp EXCEPT !.op = "complete"]
           /\ walPrev' = persisted
           /\ walRet' = IF r.panic \/ r.lastCEntry = -1 THEN <<>> ELSE r.actions
    /\ UNCHANGED <<smVars, reqVars, workVars, ecVars, clVars>>

WalAppendLogEntry ==
    /\ walPhase = "run"
    /\ Len(persisted.log) < MaxLog
    /\ persisted.nextIndex <= MaxIndex
    /\ \E entry \in WalEntries :
         LET r == appendLogEntry(persisted, entry)
         IN  /\ persisted' = r.p
             /\ walPhase' = IF r.panic THEN "panic" ELSE "run"
             /\ walOp' = [op |-> "append", index |-> 0, lw |-> 0, entry |-> entry]
             /\ walPrev' = persisted
             /\ walRet' = r.actions
    /\ UNCHANGED <<smVars, reqVars, workVars, ecVars, clVars>>

WalTruncate ==
    /\ walPhase = "run"
    /\ \E lowWatermark \in 0..(MaxSeq - 1) :
         LET r == truncate(persisted, lowWatermark)
         IN  /\ persisted' = r.p
             /\ walOp' = [op |-> "truncate", index |-> 0, lw |-> lowWatermark,
                          entry |-> FEntry(0)]
             /\ walPrev' = persisted
             /\ walRet' = r.actions
    /\ UNCHANGED <<walPhase, smVars, reqVars, workVars, ecVars, clVars>>

WalNext ==
    \/ WalAppendInitialLoad
    \/ WalLoadCompleted
    \/ WalAppendLogEntry
    \/ WalTruncate

SpecWAL == WalInit /\ [][WalNext]_vars

-----------------------------------------------------------------------------
(* The replica's configuration *)

NumNodes           == 4   \* StandardInitialNetworkState(4, 1)
SuspectTicks       == 2   \* InitialParameters.SuspectTicks
CheckpointInterval == 2   \* NetworkState.Config.CheckpointInterval of the model

Nodes   == 0..(NumNodes - 1)
Digests == {"d1", "d2"}
CpSeqs  == {s \in 1..MaxSeq : s % CheckpointInterval = 0}

Nil == [nil |-> TRUE]

CommitAction(seqNo)        == [kind |-> "commit", seqNo |-> seqNo]
SendAction(msg, seqNo)     == [kind |-> "send", msg |-> msg, seqNo |-> seqNo]
StateTransferAction(seqNo) == [kind |-> "transfer", seqNo |-> seqNo]

(* The sequence number of the last CEntry of a log, -1 when it has none. *)
RECURSIVE lastCEntrySeqNo(_, _)
lastCEntrySeqNo(log, i) ==
    IF i = 0 THEN -1
    ELSE IF log[i].entry.type = "CEntry" THEN log[i].entry.seqNo
    ELSE lastCEntrySeqNo(log, i - 1)

-----------------------------------------------------------------------------
(* Checkpoint tracker: votes[s][n] is the digest node n reported for the   *)
(* checkpoint at sequence s.                                               *)

noVotes == [s \in CpSeqs |-> [n \in Nodes |-> "none"]]

newCheckpointTracker(lowWatermark) ==
    [state |-> "cpsIdle", lowWatermark |-> lowWatermark, votes |-> noVotes]

agreements(votes, seqNo, digest) ==
    Cardinality({n \in Nodes : votes[seqNo][n] = digest})

(* strong quorum: more than two thirds of the configured nodes *)
strongQuorum(votes, seqNo) ==
    \E d \in Digests : 3 * agreements(votes, seqNo, d) > 2 * NumNodes

stableSeqs(ct) ==
    {s \in CpSeqs : s > ct.lowWatermark /\ strongQuorum(ct.votes, s)}

(* step: a vote counts once per node, for the checkpoint one interval      *)
(* above the low watermark; votes outside that window are not recorded.    *)
checkpointTrackerStep(ct, source, seqNo, digest) ==
    IF \/ seqNo \notin CpSeqs
       \/ seqNo <= ct.lowWatermark
       \/ seqNo > ct.lowWatermark + CheckpointInterval
       \/ ct.votes[seqNo][source] # "none"
    THEN ct
    ELSE LET v == [ct.votes EXCEPT ![seqNo][source] = digest]
         IN  [ct EXCEPT !.votes = v,
                        !.state = IF strongQuorum(v, seqNo)
                                  THEN "cpsGarbageCollectable" ELSE ct.state]

checkpointTrackerGarbageCollect(ct) ==
    LET stable == stableSeqs(ct)
        newLow == IF stable = {} THEN ct.lowWatermark
                  ELSE CHOOSE s \in stable : \A t \in stable : t <= s
    IN  [ct     |-> [state        |-> "cpsIdle",
                     lowWatermark |-> newLow,
                     votes        |-> [s \in CpSeqs |->
                                         IF s <= newLow THEN noVotes[s] ELSE ct.votes[s]]],
         newLow |-> newLow]

(* reinitialize: the low watermark is the last checkpoint of the log; the  *)
(* votes of other replicas above it are kept.                              *)
checkpointTrackerReinitialize(ct, log) ==
    LET lw == lastCEntrySeqNo(log, Len(log))
        v  == [s \in CpSeqs |-> IF s <= lw THEN noVotes[s] ELSE ct.votes[s]]
        c  == [state |-> "cpsIdle", lowWatermark |-> lw, votes |-> v]
    IN  [c EXCEPT !.state = IF stableSeqs(c) # {} THEN "cpsGarbageCollectable"
                            ELSE "cpsIdle"]

-----------------------------------------------------------------------------
(* Commit state: the window (lowWatermark, stopAtSeqNo], the sequences     *)
(* that reached Committed and are not yet delivered, the last delivered    *)
(* sequence, and whether a state transfer is outstanding.                  *)

newCommitState ==
    [lowWatermark |-> 0, stopAtSeqNo |-> 0, highestCommit |-> 0,
     committed |-> {}, transferring |-> FALSE, transferTarget |-> 0]

(* A mutant of commitStateReinitialize: the window restarts at zero. *)
commitStateReinitializeFromZero(cs, log) ==
    [cs      |-> [lowWatermark |-> 0, stopAtSeqNo |-> CheckpointInterval,
                  highestCommit |-> 0, committed |-> {},
                  transferring |-> FALSE, transferTarget |-> 0],
     actions |-> <<>>]

(* reinitialize: the window is derived anew from the last checkpoint of    *)
(* the recovered log; the actionSet it returns holds nothing.              *)
commitStateReinitialize(cs, log) ==
    LET s == lastCEntrySeqNo(log, Len(log))
    IN  [cs      |-> [lowWatermark |-> s, stopAtSeqNo |-> s + CheckpointInterval,
                      highestCommit |-> s, committed |-> {},
                      transferring |-> FALSE, transferTarget |-> 0],
         actions |-> <<>>]

commitStateCommit(cs, seqNo) ==
    [cs EXCEPT !.committed = cs.committed \cup {seqNo}]

(* drain: the run of committed sequences that continues the last           *)
(* delivered one, inside the window.                                       *)
RECURSIVE commitStateDrain(_)
commitStateDrain(cs) ==
    LET next == cs.highestCommit + 1
    IN  IF cs.transferring \/ next \notin cs.committed \/ next > cs.stopAtSeqNo
        THEN [cs |-> cs, commits |-> <<>>]
        ELSE LET r == commitStateDrain([cs EXCEPT !.highestCommit = next,
                                                  !.committed = cs.committed \ {next}])
             IN  [cs |-> r.cs, commits |-> <<CommitAction(next)>> \o r.commits]

commitStateApplyCheckpointResult(cs, p, seqNo) ==
    IF cs.transferring
    THEN [cs |-> cs, p |-> p, actions |-> <<>>, panic |-> FALSE]
    ELSE LET a == addCEntry(p, CEntry(seqNo))
         IN  [cs      |-> [cs EXCEPT !.lowWatermark = seqNo,
                                     !.stopAtSeqNo = seqNo + CheckpointInterval],
              p       |-> a.p,
              actions |-> a.actions \o <<SendAction("Checkpoint", seqNo)>>,
              panic   |-> a.panic]

(* transferTo: the commit state keeps whether a state transfer is          *)
(* outstanding; while one is, no other is requested.                       *)
commitStateTransferTo(cs, seqNo) ==
    IF cs.transferring
    THEN [cs |-> cs, actions |-> <<>>]
    ELSE [cs      |-> [cs EXCEPT !.transferring = TRUE, !.transferTarget = seqNo],
          actions |-> <<StateTransferAction(seqNo)>>]

-----------------------------------------------------------------------------
(* Client tracker: lowSeq is the checkpoint whose network state the client *)
(* windows were last set from.                                             *)

newClientTracker == [lowSeq |-> 0]

clientTrackerReinitialize(ct, cs) == [ct EXCEPT !.lowSeq = cs.lowWatermark]

clientTrackerAllocate(ct, seqNo) == [ct EXCEPT !.lowSeq = seqNo]

-----------------------------------------------------------------------------
(* Client hash disseminator.  The model keeps none of its fields; each     *)
(* method is the actionSet it returns.                                     *)

AllocateAction(seqNo) == [kind |-> "allocate", seqNo |-> seqNo]

(* tick: no request is held, so none is sent again. *)
clientHashDisseminatorTick == <<>>

(* applyNewRequests: the requests just persisted are acknowledged to the   *)
(* other replicas.                                                         *)
clientHashDisseminatorApplyNewRequests == <<SendAction("RequestAck", 0)>>

(* allocate: the requests of the new window are asked for. *)
clientHashDisseminatorAllocate(seqNo) == <<AllocateAction(seqNo)>>

(* reinitialize: no request is held, so none is asked for again. *)
clientHashDisseminatorReinitialize(lowWatermark) == <<>>

-----------------------------------------------------------------------------
(* Batch tracker: batches at or below lowSeq have been dropped.  batches   *)
(* holds the sequences whose batch is known, fetchInFlight those whose     *)
(* batch has been asked of another replica and not yet verified.           *)

newBatchTracker == [lowSeq |-> 0, batches |-> {}, fetchInFlight |-> {}]

hasFetchInFlight(bt) == bt.fetchInFlight # {}

(* addBatch records the batch of a sequence. *)
batchTrackerAddBatch(bt, seqNo) == [bt EXCEPT !.batches = @ \cup {seqNo}]

(* applyVerifyBatchHashResult: a verified batch that is still awaited is   *)
(* taken in and its fetch ends; a result for a batch that is no longer     *)
(* awaited is a repeated response; a digest other than the expected one is *)
(* not accepted.                                                           *)
batchTrackerApplyVerifyBatchHashResult(bt, verifyBatch) ==
    IF ~verifyBatch.matches \/ verifyBatch.seqNo \notin bt.fetchInFlight
    THEN bt
    ELSE [bt EXCEPT !.fetchInFlight = bt.fetchInFlight \ {verifyBatch.seqNo},
                    !.batches = bt.batches \cup {verifyBatch.seqNo}]

batchTrackerTruncate(bt, seqNo) ==
    [bt EXCEPT !.lowSeq = seqNo, !.batches = {s \in bt.batches : s > seqNo}]

batchTrackerReinitialize(bt) == bt

-----------------------------------------------------------------------------
(* Epoch tracker.  A Commit message of the model is the one that completes *)
(* the commit quorum of its sequence.  buffered holds the sequences whose  *)
(* quorum is complete but which lie above the window.                      *)

(* state is the state of the current epoch and batchDigests the sequences  *)
(* whose batch digest the tracker has taken.                               *)

EpochStates == {"etPending", "etFetching", "etActive", "etDone"}

newEpochTracker ==
    [lowWatermark |-> 0, buffered |-> {}, ticks |-> 0, state |-> "etPending",
     batchDigests |-> {}]

epochTrackerReinitialize(et, cs) ==
    [et      |-> [lowWatermark |-> cs.lowWatermark, buffered |-> {}, ticks |-> 0,
                  state |-> "etActive", batchDigests |-> {}],
     actions |-> <<>>]

(* applyBatchHashResult: the tracker takes the digest of the batch of a    *)
(* sequence, which lets the voting on that sequence go on.                 *)
epochTrackerApplyBatchHashResult(et, seqNo) ==
    [et      |-> [et EXCEPT !.batchDigests = @ \cup {seqNo}],
     actions |-> <<SendAction("Prepare", seqNo)>>]

(* applyEpochChangeDigest: the digest of a peer's epoch change is          *)
(* acknowledged to the peers.                                              *)
epochTrackerApplyEpochChangeDigest(et) ==
    [et |-> et, actions |-> <<SendAction("EpochChangeAck", 0)>>]

(* fetchNewEpochState: with every batch of the new epoch at hand the epoch *)
(* leaves the fetching state.                                              *)
fetchNewEpochState(et) ==
    [et |-> [et EXCEPT !.state = "etActive"], actions |-> <<>>]

epochTrackerStepCommit(et, cs, seqNo) ==
    IF cs.transferring \/ seqNo <= cs.highestCommit \/ seqNo \in cs.committed
    THEN [et |-> et, cs |-> cs, actions |-> <<>>]
    ELSE IF seqNo > cs.stopAtSeqNo
    THEN [et |-> [et EXCEPT !.buffered = et.buffered \cup {seqNo}],
          cs |-> cs, actions |-> <<>>]
    ELSE [et |-> et, cs |-> commitStateCommit(cs, seqNo), actions |-> <<>>]

(* advanceState: the lowest buffered sequence that has come into the       *)
(* window is committed, one per call; an empty result says nothing is left *)
(* to do.                                                                  *)
epochTrackerAdvanceState(et, cs) ==
    LET ready == {s \in et.buffered : s <= cs.stopAtSeqNo}
    IN  IF cs.transferring \/ ready = {}
        THEN [et |-> et, cs |-> cs, actions |-> <<>>]
        ELSE LET s == CHOOSE x \in ready : \A y \in ready : x <= y
             IN  [et      |-> [et EXCEPT !.buffered = et.buffered \ {s}],
                  cs      |-> IF s <= cs.highestCommit THEN cs
                              ELSE commitStateCommit(cs, s),
                  actions |-> <<SendAction("Commit", s)>>]

(* moveLowWatermark: the tracker moves its own low watermark. *)
epochTrackerMoveLowWatermark(et, newLow) ==
    [et |-> [et EXCEPT !.lowWatermark = newLow], actions |-> <<>>]

(* step, for the NewEpoch message that completes the agreement on the      *)
(* starting checkpoint of the next epoch.  A replica that has not          *)
(* delivered up to that checkpoint lags behind and is caught up to it by   *)
(* state transfer; any other goes on to fetch the batches of the epoch.    *)
epochTrackerStepNewEpoch(et, cs, seqNo) ==
    IF seqNo > cs.highestCommit
    THEN [et      |-> et,
          cs      |-> commitStateTransferTo(cs, seqNo).cs,
          actions |-> commitStateTransferTo(cs, seqNo).actions]
    ELSE [et |-> [et EXCEPT !.state = "etFetching"], cs |-> cs, actions |-> <<>>]

(* tick: the liveness counter runs up to SuspectTicks; when it gets there  *)
(* the leader is suspected, the vote is sent and the counter starts again. *)
epochTrackerTick(et, p) ==
    IF et.ticks + 1 < SuspectTicks
    THEN [et |-> [et EXCEPT !.ticks = et.ticks + 1], p |-> p,
          actions |-> <<>>, panic |-> FALSE]
    ELSE [et      |-> [et EXCEPT !.ticks = 0],
          p       |-> p,
          actions |-> <<SendAction("Suspect", 0)>>,
          panic   |-> FALSE]

-----------------------------------------------------------------------------
(* StateMachine *)

noGC == [ran |-> FALSE, newLow |-> 0, cp |-> Nil]

(* What a handler leaves behind: the machine, the actions it returned,     *)
(* whether it panicked, and for the properties what the garbage collection *)
(* step and the drain loop did.                                            *)
result(m, acts, panic) ==
    [m |-> m, actions |-> acts, panic |-> panic, gc |-> noGC, drains |-> <<>>,
     advances |-> <<>>, before |-> <<>>]

newStateMachine ==
    [state |-> "smUninitialized", persisted |-> Nil, checkpointTracker |-> Nil,
     commitState |-> Nil, clientTracker |-> Nil, batchTracker |-> Nil,
     epochTracker |-> Nil]

(* A mutant of initialize: the assertion on sm.state is lost. *)
initializeUnguarded(m) ==
    result([state             |-> "smLoadingPersisted",
            persisted         |-> newPersisted,
            checkpointTracker |-> newCheckpointTracker(0),
            commitState       |-> newCommitState,
            clientTracker     |-> newClientTracker,
            batchTracker      |-> newBatchTracker,
            epochTracker      |-> newEpochTracker], <<>>, FALSE)

initialize(m) ==
    IF m.state # "smUninitialized"
    THEN result(m, <<>>, TRUE)
    ELSE result([state             |-> "smLoadingPersisted",
                 persisted         |-> newPersisted,
                 checkpointTracker |-> newCheckpointTracker(0),
                 commitState       |-> newCommitState,
                 clientTracker     |-> newClientTracker,
                 batchTracker      |-> newBatchTracker,
                 epochTracker      |-> newEpochTracker], <<>>, FALSE)

applyPersisted(m, index, data) ==
    IF m.state # "smLoadingPersisted"
    THEN result(m, <<>>, TRUE)
    ELSE LET r == appendInitialLoad(m.persisted, index, data)
         IN  result([m EXCEPT !.persisted = r.p], <<>>, r.panic)

(* A mutant of reinitializeComponents: the commit state is left as it was. *)
reinitializeComponentsKept(m, r, c) ==
    result([state             |-> m.state,
            persisted         |-> r.p,
            checkpointTracker |-> checkpointTrackerReinitialize(m.checkpointTracker,
                                                                r.p.log),
            commitState       |-> m.commitState,
            clientTracker     |-> clientTrackerReinitialize(m.clientTracker,
                                                            m.commitState),
            batchTracker      |-> batchTrackerReinitialize(m.batchTracker),
            epochTracker      |-> epochTrackerReinitialize(m.epochTracker,
                                                           m.commitState).et],
           r.actions
               \o clientHashDisseminatorReinitialize(m.commitState.lowWatermark)
               \o epochTrackerReinitialize(m.epochTracker, m.commitState).actions,
           FALSE)

(* reinitialize: recoverLog, then each component rebuilds itself, in the   *)
(* order commit state, client tracker, client hash disseminator,           *)
(* checkpoint tracker, batch tracker, epoch tracker; the actions of        *)
(* recoverLog, of the commit state, of the disseminator and of the epoch   *)
(* tracker are concatenated in that order.  The commit state needs the     *)
(* last checkpoint of the log.                                             *)
reinitializeComponents(m, r, c) ==
    result([state             |-> m.state,
            persisted         |-> r.p,
            checkpointTracker |-> checkpointTrackerReinitialize(m.checkpointTracker,
                                                                r.p.log),
            commitState       |-> c.cs,
            clientTracker     |-> clientTrackerReinitialize(m.clientTracker, c.cs),
            batchTracker      |-> batchTrackerReinitialize(m.batchTracker),
            epochTracker      |-> epochTrackerReinitialize(m.epochTracker, c.cs).et],
           r.actions
               \o c.actions
               \o clientHashDisseminatorReinitialize(c.cs.lowWatermark)
               \o epochTrackerReinitialize(m.epochTracker, c.cs).actions,
           FALSE)

reinitializeRecovered(m, r) ==
    IF r.panic \/ r.lastCEntry = -1
    THEN result([m EXCEPT !.persisted = r.p], <<>>, TRUE)
    ELSE reinitializeComponents(m, r, commitStateReinitialize(m.commitState, r.p.log))

reinitialize(m) == reinitializeRecovered(m, recoverLog(m))

(* A mutant of completeInitialization: sm.state is not set. *)
completeInitializationNoState(m) ==
    IF m.state # "smLoadingPersisted"
    THEN result(m, <<>>, TRUE)
    ELSE reinitialize(m)

completeInitialization(m) ==
    IF m.state # "smLoadingPersisted"
    THEN result(m, <<>>, TRUE)
    ELSE reinitialize([m EXCEPT !.state = "smInitialized"])

step(m, source, msg) ==
    CASE msg.type = "Checkpoint" ->
           result([m EXCEPT !.checkpointTracker =
                       checkpointTrackerStep(m.checkpointTracker, source,
                                             msg.seqNo, msg.digest)],
                  <<>>, FALSE)
      [] msg.type = "Commit" ->
           LET r == epochTrackerStepCommit(m.epochTracker, m.commitState, msg.seqNo)
           IN  result([m EXCEPT !.epochTracker = r.et, !.commitState = r.cs],
                      r.actions, FALSE)
      [] msg.type = "NewEpoch" ->
           LET r == epochTrackerStepNewEpoch(m.epochTracker, m.commitState, msg.seqNo)
           IN  result([m EXCEPT !.epochTracker = r.et, !.commitState = r.cs],
                      r.actions, FALSE)

(* processResults, the loop over results.Checkpoints from position i. *)
RECURSIVE processCheckpointResults(_, _, _, _)
applyCheckpointResult(m, checkpoints, i, acts, a) ==
    IF a.panic
    THEN result([m EXCEPT !.commitState = a.cs, !.persisted = a.p], <<>>, TRUE)
    ELSE IF m.commitState.stopAtSeqNo < a.cs.stopAtSeqNo
    THEN processCheckpointResults(
             [m EXCEPT !.commitState = a.cs, !.persisted = a.p,
                       !.clientTracker =
                           clientTrackerAllocate(m.clientTracker, checkpoints[i])],
             checkpoints, i + 1,
             acts \o a.actions \o clientHashDisseminatorAllocate(checkpoints[i]))
    ELSE processCheckpointResults(
             [m EXCEPT !.commitState = a.cs, !.persisted = a.p],
             checkpoints, i + 1, acts \o a.actions)

(* A mutant of processCheckpointResults: a result below the low watermark *)
(* is not skipped.                                                        *)
processCheckpointResultsNoSkip(m, checkpoints, i, acts) ==
    IF i > Len(checkpoints)
    THEN result(m, acts, FALSE)
    ELSE IF m.commitState.lowWatermark + CheckpointInterval # checkpoints[i]
    THEN result(m, <<>>, TRUE)
    ELSE applyCheckpointResult(m, checkpoints, i, acts,
             commitStateApplyCheckpointResult(m.commitState, m.persisted,
                                              checkpoints[i]))

processCheckpointResults(m, checkpoints, i, acts) ==
    IF i > Len(checkpoints)
    THEN result(m, acts, FALSE)
    ELSE IF checkpoints[i] < m.commitState.lowWatermark
    THEN processCheckpointResults(m, checkpoints, i + 1, acts)
    ELSE IF m.commitState.lowWatermark + CheckpointInterval # checkpoints[i]
    THEN result(m, <<>>, TRUE)
    ELSE applyCheckpointResult(m, checkpoints, i, acts,
             commitStateApplyCheckpointResult(m.commitState, m.persisted,
                                              checkpoints[i]))

(* processResults, the loop over results.Digests from position i.  The   *)
(* switch knows batch, epoch change and batch verification results; a     *)
(* result of any other type panics.  The epoch tracker takes the batch    *)
(* and epoch change digests and its actions are added to the result.      *)
HashResult(type, matches) == [type |-> type, matches |-> matches, seqNo |-> 0]

BatchResult(seqNo) == [type |-> "Batch", matches |-> TRUE, seqNo |-> seqNo]

VerifyBatch(seqNo, matches) ==
    [type |-> "VerifyBatch", matches |-> matches, seqNo |-> seqNo]

(* A mutant of mayFetchNewEpochState: fetches in flight are not looked at. *)
mayFetchNewEpochStateInFlight(bt, et) == et.state = "etFetching"

mayFetchNewEpochState(bt, et) == ~hasFetchInFlight(bt) /\ et.state = "etFetching"

verifyBatchApplied(r, bt) ==
    IF mayFetchNewEpochState(bt, r.m.epochTracker)
    THEN [r EXCEPT !.m.batchTracker = bt,
                   !.m.epochTracker = fetchNewEpochState(r.m.epochTracker).et,
                   !.actions = r.actions
                                 \o fetchNewEpochState(r.m.epochTracker).actions]
    ELSE [r EXCEPT !.m.batchTracker = bt]

epochTrackerApplied(r, t) ==
    [r EXCEPT !.m.epochTracker = t.et, !.actions = r.actions \o t.actions]

processHashResult(r, hashResult) ==
    CASE hashResult.type = "Batch" ->
           epochTrackerApplied(
               [r EXCEPT !.m.batchTracker =
                             batchTrackerAddBatch(r.m.batchTracker, hashResult.seqNo)],
               epochTrackerApplyBatchHashResult(r.m.epochTracker, hashResult.seqNo))
      [] hashResult.type = "EpochChange" ->
           epochTrackerApplied(r, epochTrackerApplyEpochChangeDigest(r.m.epochTracker))
      [] hashResult.type = "VerifyBatch" ->
           verifyBatchApplied(r,
               batchTrackerApplyVerifyBatchHashResult(r.m.batchTracker, hashResult))
      [] OTHER -> result(r.m, <<>>, TRUE)

RECURSIVE processHashResults(_, _, _)
processHashResults(r, digests, i) ==
    IF r.panic \/ i > Len(digests)
    THEN r
    ELSE processHashResults(processHashResult(r, digests[i]), digests, i + 1)

processResults(m, results) ==
    processHashResults(processCheckpointResults(m, results.checkpoints, 1, <<>>),
                       results.digests, 1)

(* StateEvent_Tick: the actions of the disseminator's tick, then those of  *)
(* the epoch tracker's.                                                    *)
tickResult(m, d, t) ==
    result([m EXCEPT !.epochTracker = t.et, !.persisted = t.p],
           d \o t.actions, t.panic)

tick(m) ==
    tickResult(m, clientHashDisseminatorTick,
               epochTrackerTick(m.epochTracker, m.persisted))

(* StateEvent_Transfer: sm.commitState is a nil pointer before Initialize. *)
transferReinitialize(a, r) == [r EXCEPT !.actions = a.actions \o r.actions]

transferAppended(m, a) ==
    IF a.panic
    THEN result(m, <<>>, TRUE)
    ELSE transferReinitialize(a, reinitialize([m EXCEPT !.persisted = a.p]))

transfer(m, seqNo) ==
    IF m.commitState = Nil
    THEN result(m, <<>>, TRUE)
    ELSE IF m.commitState.transferring # TRUE
    THEN result(m, <<>>, TRUE)
    ELSE transferAppended(m, addCEntry(m.persisted, CEntry(seqNo)))

(* A mutant of gcDue: the garbage collection step is never taken. *)
gcDueNever(m) == FALSE

(* A mutant of gcDue: the comparison is inverted. *)
gcDueInverted(m) == m.checkpointTracker.state # "cpsGarbageCollectable"

gcDue(m) == m.checkpointTracker.state = "cpsGarbageCollectable"

(* A mutant of garbageCollected: the batch tracker is truncated at the new *)
(* low watermark itself, so the preceding interval is not kept.            *)
garbageCollectedNoExtraInterval(m, g, t, mv) ==
    [m       |-> [m EXCEPT !.checkpointTracker = g.ct,
                           !.persisted = t.p,
                           !.batchTracker =
                               batchTrackerTruncate(m.batchTracker, g.newLow),
                           !.epochTracker = mv.et],
     actions |-> mv.actions,
     gc      |-> [ran |-> TRUE, newLow |-> g.newLow, cp |-> m.checkpointTracker]]

(* The garbage collection step of applyEvent.  The actionSet that          *)
(* persisted.truncate returns is not used.                                 *)
garbageCollected(m, g, t, mv) ==
    [m       |-> [m EXCEPT !.checkpointTracker = g.ct,
                           !.persisted = t.p,
                           !.batchTracker =
                               IF g.newLow > CheckpointInterval
                               THEN batchTrackerTruncate(m.batchTracker,
                                        g.newLow - CheckpointInterval)
                               ELSE m.batchTracker,
                           !.epochTracker = mv.et],
     actions |-> mv.actions,
     gc      |-> [ran |-> TRUE, newLow |-> g.newLow, cp |-> m.checkpointTracker]]

garbageCollect(m, g) ==
    garbageCollected(m, g, truncate(m.persisted, g.newLow),
                     epochTrackerMoveLowWatermark(m.epochTracker, g.newLow))

garbageCollectStep(m) ==
    IF gcDue(m)
    THEN garbageCollect(m, checkpointTrackerGarbageCollect(m.checkpointTracker))
    ELSE [m |-> m, actions |-> <<>>,
          gc |-> [ran |-> FALSE, newLow |-> 0, cp |-> m.checkpointTracker]]

(* A mutant of concatCommits: the drained commits are put in front. *)
concatCommitsFront(acts, commits) == commits \o acts

(* actions.concat(&actionSet{Commits: sm.commitState.drain()}) *)
concatCommits(acts, commits) == acts \o commits

(* The loop of applyEvent: drain, advanceState, until advanceState returns *)
(* nothing.                                                                *)
(* actionSet.isEmpty *)
isEmpty(acts) == acts = <<>>

RECURSIVE drainLoop(_, _, _, _)
(* A mutant of drainLoopAdvanced: what advanceState returned is not        *)
(* concatenated to the event's actions.                                    *)
drainLoopAdvancedDropped(m, acts, drains, advances, a) ==
    IF isEmpty(a.actions)
    THEN [m |-> [m EXCEPT !.commitState = a.cs, !.epochTracker = a.et],
          actions |-> acts, drains |-> drains,
          advances |-> Append(advances, a.actions)]
    ELSE drainLoop([m EXCEPT !.commitState = a.cs, !.epochTracker = a.et],
                   acts, drains, Append(advances, a.actions))

drainLoopAdvanced(m, acts, drains, advances, a) ==
    IF isEmpty(a.actions)
    THEN [m |-> [m EXCEPT !.commitState = a.cs, !.epochTracker = a.et],
          actions |-> acts, drains |-> drains,
          advances |-> Append(advances, a.actions)]
    ELSE drainLoop([m EXCEPT !.commitState = a.cs, !.epochTracker = a.et],
                   acts \o a.actions, drains, Append(advances, a.actions))

drainLoopDrained(m, acts, drains, advances, d) ==
    drainLoopAdvanced(m, concatCommits(acts, d.commits), Append(drains, d.commits),
                      advances, epochTrackerAdvanceState(m.epochTracker, d.cs))

drainLoop(m, acts, drains, advances) ==
    drainLoopDrained(m, acts, drains, advances, commitStateDrain(m.commitState))

(* What follows the switch of applyEvent. *)
afterLoop(r, g, l) ==
    [m |-> l.m, actions |-> l.actions, panic |-> FALSE,
     gc |-> g.gc, drains |-> l.drains, advances |-> l.advances,
     before |-> r.actions \o g.actions]

(* A mutant of afterGarbageCollectStep: the loop is left out. *)
afterGarbageCollectStepNoLoop(r, g) ==
    [m |-> g.m, actions |-> r.actions \o g.actions, panic |-> FALSE,
     gc |-> g.gc, drains |-> <<>>, advances |-> <<>>,
     before |-> r.actions \o g.actions]

afterGarbageCollectStep(r, g) ==
    afterLoop(r, g, drainLoop(g.m, r.actions \o g.actions, <<>>, <<>>))

afterSwitch(r) ==
    IF r.panic THEN r ELSE afterGarbageCollectStep(r, garbageCollectStep(r.m))

assertInitialized(m) == m.state = "smInitialized"

(* A mutant of actionsReceived: the case does not return, so the code      *)
(* after the switch runs.                                                  *)
actionsReceivedFallThrough(m) ==
    IF m.checkpointTracker = Nil
    THEN result(m, <<>>, TRUE)
    ELSE afterSwitch(result(m, <<>>, FALSE))

(* StateEvent_ActionsReceived, StateEvent_ClientActionsReceived *)
actionsReceived(m) == result(m, <<>>, FALSE)

applyEvent(m, event) ==
    CASE event.type = "Initialize" ->
           initialize(m)
      [] event.type = "LoadEntry" ->
           applyPersisted(m, event.index, event.data)
      [] event.type = "CompleteInitialization" ->
           completeInitialization(m)
      [] event.type = "Tick" ->
           IF assertInitialized(m) THEN afterSwitch(tick(m))
           ELSE result(m, <<>>, TRUE)
      [] event.type = "Step" ->
           IF assertInitialized(m)
           THEN afterSwitch(step(m, event.source, event.msg))
           ELSE result(m, <<>>, TRUE)
      [] event.type = "AddResults" ->
           IF assertInitialized(m)
           THEN afterSwitch(processResults(m, event.results))
           ELSE result(m, <<>>, TRUE)
      [] event.type = "AddClientResults" ->
           IF assertInitialized(m)
           THEN afterSwitch(result(m, clientHashDisseminatorApplyNewRequests, FALSE))
           ELSE result(m, <<>>, TRUE)
      [] event.type = "Transfer" ->
           afterSwitch(transfer(m, event.seqNo))
      [] event.type \in {"ActionsReceived", "ClientActionsReceived"} ->
           actionsReceived(m)

-----------------------------------------------------------------------------
(* Spec: the StateMachine fed one StateEvent at a time *)

SMLoadEntries == {CEntry(0), FEntry(0)}

Machine ==
    [state |-> smState, persisted |-> persisted,
     checkpointTracker |-> checkpointTracker, commitState |-> commitState,
     clientTracker |-> clientTracker, batchTracker |-> batchTracker,
     epochTracker |-> epochTracker]

commitSeqNos(acts) ==
    LET c == SelectSeq(acts, LAMBDA a : a.kind = "commit")
    IN  [i \in 1..Len(c) |-> c[i].seqNo]

Init ==
    /\ smState = "smUninitialized"
    /\ persisted = Nil
    /\ checkpointTracker = Nil
    /\ commitState = Nil
    /\ clientTracker = Nil
    /\ batchTracker = Nil
    /\ epochTracker = Nil
    /\ aborted = FALSE
    /\ lastEvent = [type |-> "none"]
    /\ actions = <<>>
    /\ hist = [commits |-> <<>>, gc |-> noGC, drains |-> <<>>,
               advances |-> <<>>, before |-> <<>>]
    /\ walPhase = "load"
    /\ walOp = NoOp
    /\ walPrev = newPersisted
    /\ walRet = <<>>
    /\ ReqInitValues
    /\ WorkInitValues
    /\ EcInitValues
    /\ ClInitValues

(* ApplyEvent: a panic leaves the fields as they were when it was raised   *)
(* and ends the process; nothing is returned.  The run stops growing the   *)
(* log at index MaxIndex.                                                  *)
Applied(event, r) ==
    /\ r.m.persisted # Nil => r.m.persisted.nextIndex <= MaxIndex
    /\ smState' = r.m.state
    /\ persisted' = r.m.persisted
    /\ checkpointTracker' = r.m.checkpointTracker
    /\ commitState' = r.m.commitState
    /\ clientTracker' = r.m.clientTracker
    /\ batchTracker' = r.m.batchTracker
    /\ epochTracker' = r.m.epochTracker
    /\ aborted' = r.panic
    /\ lastEvent' = [type |-> event.type]
    /\ actions' = IF r.panic THEN <<>> ELSE r.actions
    /\ hist' = [commits |-> IF r.panic THEN hist.commits
                            ELSE IF event.type = "Transfer"
                            THEN commitSeqNos(r.actions)
                            ELSE hist.commits \o commitSeqNos(r.actions),
                gc      |-> r.gc,
                drains  |-> r.drains,
                advances |-> r.advances,
                before  |-> r.before]

Apply(event) ==
    /\ ~aborted
    /\ Applied(event, applyEvent(Machine, event))
    /\ UNCHANGED <<walVars, reqVars, workVars, ecVars, clVars>>

Initialize == Apply([type |-> "Initialize"])

LoadEntry ==
    /\ smState = "smLoadingPersisted" => Len(persisted.log) < MaxLoad
    /\ \E index \in 0..(MaxLoad - 1), data \in SMLoadEntries :
         Apply([type |-> "LoadEntry", index |-> index, data |-> data])

CompleteInitialization == Apply([type |-> "CompleteInitialization"])

Tick == Apply([type |-> "Tick"])

(* At most one replica is faulty: the replicas other than the last one    *)
(* report the digest d1.                                                   *)
StepCheckpoint ==
    \E source \in Nodes, seqNo \in CpSeqs, digest \in Digests :
        /\ source # NumNodes - 1 => digest = "d1"
        /\ Apply([type |-> "Step", source |-> source,
                 msg |-> [type |-> "Checkpoint", seqNo |-> seqNo,
                          digest |-> digest]])

StepCommit ==
    \E seqNo \in 1..MaxSeq :
        Apply([type |-> "Step", source |-> 0,
               msg |-> [type |-> "Commit", seqNo |-> seqNo, digest |-> "d1"]])

(* The hash results of an AddResults event: none, an epoch change digest,  *)
(* a batch verification, a request verification, or a mismatching request *)
(* verification followed by a batch digest.  Batch digests on their own    *)
(* are fed under SpecFetch.                                                *)
HashResults ==
    {HashResult(t, TRUE) : t \in {"EpochChange", "VerifyRequest"}}
        \cup {VerifyBatch(1, TRUE), HashResult("VerifyRequest", FALSE)}

HashResultLists ==
    {<<>>} \cup {<<h>> : h \in HashResults}
           \cup {<<HashResult("VerifyRequest", FALSE), BatchResult(1)>>}

(* The application returns the checkpoint at lowWatermark + interval only  *)
(* after that sequence was delivered to it; other results are stale or out *)
(* of cadence.                                                             *)
AddResults ==
    \E checkpoints \in {<<>>} \cup {<<s>> : s \in {0} \cup CpSeqs},
       digests \in HashResultLists :
        /\ checkpoints # <<>> => digests = <<>>
        /\ (smState = "smInitialized" /\ checkpoints # <<>>
              /\ checkpoints[1] = commitState.lowWatermark + CheckpointInterval)
             => commitState.highestCommit >= checkpoints[1]
        /\ Apply([type |-> "AddResults",
                  results |-> [checkpoints |-> checkpoints, digests |-> digests]])

AddClientResults == Apply([type |-> "AddClientResults"])

(* The NewEpoch message that completes the agreement on a starting        *)
(* checkpoint; the epochs of the model start at the highest checkpoint of  *)
(* the range.                                                              *)
NewEpochSeqs == {s \in CpSeqs : s + CheckpointInterval > MaxSeq}

StepNewEpoch ==
    \E seqNo \in NewEpochSeqs :
        Apply([type |-> "Step", source |-> 0,
               msg |-> [type |-> "NewEpoch", seqNo |-> seqNo, digest |-> "d1"]])

Transfer == \E seqNo \in CpSeqs : Apply([type |-> "Transfer", seqNo |-> seqNo])

ActionsReceived == Apply([type |-> "ActionsReceived"])

ClientActionsReceived == Apply([type |-> "ClientActionsReceived"])

Next ==
    \/ Initialize
    \/ LoadEntry
    \/ CompleteInitialization
    \/ Tick
    \/ StepCheckpoint
    \/ StepCommit
    \/ StepNewEpoch
    \/ AddResults
    \/ AddClientResults
    \/ Transfer
    \/ ActionsReceived
    \/ ClientActionsReceived

Spec == Init /\ [][Next]_vars

-----------------------------------------------------------------------------
(* allOutstandingReqs *)

NumberOfBuckets == 2   \* networkState.Config.NumberOfBuckets of the model
MaxReqNo        == 2   \* request numbers of the acks range over 0..MaxReqNo
MaxAvailable    == 2   \* the available list holds at most MaxAvailable acks
MaxBatch        == 2   \* a batch holds at most MaxBatch acks
MaxSeqs         == 2   \* sequences 1..MaxSeqs are allocated

Buckets    == 0..(NumberOfBuckets - 1)
ClientIds  == {0, 1}
ReqDigests == {"a", "b"}
SeqIds     == 1..MaxSeqs

RequestAck(clientId, reqNo, digest) ==
    [clientId |-> clientId, reqNo |-> reqNo, digest |-> digest]

NoAck == [clientId |-> -1, reqNo |-> 0, digest |-> "none"]

(* pb.NetworkState_Client: the low watermark and the request numbers at or *)
(* above it that are committed already.                                    *)
NetworkStateClient(lowWatermark, committed) ==
    [lowWatermark |-> lowWatermark, committed |-> committed]

isCommitted(reqNo, client) ==
    reqNo < client.lowWatermark \/ reqNo \in client.committed

clientReqToBucket(clientId, reqNo) == (clientId + reqNo) % NumberOfBuckets

(* sequence: what allocate was given, the digests still outstanding, and   *)
(* the digests satisfyOutstanding was called with, in order.               *)
newSequence ==
    [allocated |-> FALSE, registered |-> {}, outstanding |-> {},
     satisfied |-> <<>>]

sequenceAllocate(seq, seqNo, batch, outstandingReqs) ==
    [seq     |-> [seq EXCEPT !.allocated = TRUE,
                             !.registered = outstandingReqs,
                             !.outstanding = outstandingReqs],
     actions |-> <<[kind |-> "allocated", seqNo |-> seqNo,
                    outstanding |-> outstandingReqs]>>]

sequenceSatisfyOutstanding(seq, seqNo, ack) ==
    [seq     |-> [seq EXCEPT !.outstanding = @ \ {ack.digest},
                             !.satisfied = Append(@, ack.digest)],
     actions |-> <<[kind |-> "satisfied", seqNo |-> seqNo, digest |-> ack.digest]>>]

(* A mutant of skipPreviouslyCommitted: nothing is skipped. *)
skipPreviouslyCommittedNot(nextReqNo, client) == nextReqNo

RECURSIVE skipPreviouslyCommitted(_, _)
skipPreviouslyCommitted(nextReqNo, client) ==
    IF ~isCommitted(nextReqNo, client)
    THEN nextReqNo
    ELSE skipPreviouslyCommitted(nextReqNo + NumberOfBuckets, client)

(* newOutstandingReqs, the loop over j that looks for the first request    *)
(* number at or above the low watermark that falls into bucket i.          *)
RECURSIVE firstUncommitted(_, _, _, _)
firstUncommitted(clientId, client, i, j) ==
    IF j >= NumberOfBuckets
    THEN 0
    ELSE IF clientReqToBucket(clientId, client.lowWatermark + j) = i
    THEN client.lowWatermark + j
    ELSE firstUncommitted(clientId, client, i, j + 1)

(* advanceRequests from the iterator's position: [ao, sequences, actions]. *)
(* A digest that is not outstanding has the value 0 in                     *)
(* outstandingRequests, one that is not known correct has NoAck in         *)
(* correctRequests.                                                        *)
RECURSIVE advanceRequestsFrom(_, _, _, _)
(* A mutant of advanceRequestsSatisfied: the digest is not deleted from    *)
(* outstandingRequests.                                                    *)
advanceRequestsSatisfiedKept(a, available, seqs, acts, ack, seqNo, s) ==
    advanceRequestsFrom(
        [a EXCEPT !.availableIterator = @ + 1],
        available, [seqs EXCEPT ![seqNo] = s.seq], acts \o s.actions)

advanceRequestsSatisfied(a, available, seqs, acts, ack, seqNo, s) ==
    advanceRequestsFrom(
        [a EXCEPT !.availableIterator = @ + 1,
                  !.outstandingRequests[ack.digest] = 0],
        available, [seqs EXCEPT ![seqNo] = s.seq], acts \o s.actions)

advanceRequestsNext(a, available, seqs, acts, ack, seqNo) ==
    IF seqNo # 0
    THEN advanceRequestsSatisfied(a, available, seqs, acts, ack, seqNo,
             sequenceSatisfyOutstanding(seqs[seqNo], seqNo, ack))
    ELSE advanceRequestsFrom(
             [a EXCEPT !.availableIterator = @ + 1,
                       !.correctRequests[ack.digest] = ack],
             available, seqs, acts)

advanceRequestsFrom(a, available, seqs, acts) ==
    IF a.availableIterator >= Len(available)
    THEN [ao |-> a, sequences |-> seqs, actions |-> acts]
    ELSE advanceRequestsNext(a, available, seqs, acts,
             available[a.availableIterator + 1],
             a.outstandingRequests[available[a.availableIterator + 1].digest])

advanceRequests(a, available, seqs) == advanceRequestsFrom(a, available, seqs, <<>>)

newOutstandingReqs(networkState, available, seqs) ==
    advanceRequests(
        [networkState        |-> networkState,
         buckets             |-> [i \in Buckets |-> [c \in ClientIds |->
                                    skipPreviouslyCommitted(
                                        firstUncommitted(c, networkState[c], i, 0),
                                        networkState[c])]],
         correctRequests     |-> [d \in ReqDigests |-> NoAck],
         outstandingRequests |-> [d \in ReqDigests |-> 0],
         availableIterator   |-> 0],
        available, seqs)

(* A mutant of applyAck: correctRequests is not consulted, the digest is   *)
(* registered as outstanding in any case.                                  *)
applyAckAlwaysOutstanding(a, bucket, seqNo, req) ==
    [a EXCEPT !.outstandingRequests[req.digest] = seqNo,
              !.buckets[bucket][req.clientId] =
                  skipPreviouslyCommitted(@ + NumberOfBuckets,
                                          a.networkState[req.clientId])]

(* applyAcks, the body of the loop for one request that passed the checks. *)
applyAck(a, bucket, seqNo, req) ==
    [a EXCEPT !.correctRequests[req.digest] = NoAck,
              !.outstandingRequests[req.digest] =
                  IF a.correctRequests[req.digest] # NoAck THEN @ ELSE seqNo,
              !.buckets[bucket][req.clientId] =
                  skipPreviouslyCommitted(@ + NumberOfBuckets,
                                          a.networkState[req.clientId])]

(* A mutant of applyAcksFrom: the request number is not compared with the *)
(* client's next request number.                                          *)
RECURSIVE applyAcksFromUnchecked(_, _, _, _, _, _)
applyAcksFromUnchecked(a, bucket, seqNo, batch, i, outstandingReqs) ==
    IF i > Len(batch)
    THEN [ao |-> a, outstandingReqs |-> outstandingReqs, err |-> FALSE]
    ELSE IF batch[i].clientId \notin ClientIds
    THEN [ao |-> a, outstandingReqs |-> outstandingReqs, err |-> TRUE]
    ELSE applyAcksFromUnchecked(applyAck(a, bucket, seqNo, batch[i]), bucket, seqNo,
             batch, i + 1,
             IF a.correctRequests[batch[i].digest] # NoAck
             THEN outstandingReqs
             ELSE outstandingReqs \cup {batch[i].digest})

(* applyAcks, the loop over the batch from position i:                     *)
(* [ao, outstandingReqs, err].                                             *)
RECURSIVE applyAcksFrom(_, _, _, _, _, _)
applyAcksFrom(a, bucket, seqNo, batch, i, outstandingReqs) ==
    IF i > Len(batch)
    THEN [ao |-> a, outstandingReqs |-> outstandingReqs, err |-> FALSE]
    ELSE IF batch[i].clientId \notin ClientIds
    THEN [ao |-> a, outstandingReqs |-> outstandingReqs, err |-> TRUE]
    ELSE IF a.buckets[bucket][batch[i].clientId] # batch[i].reqNo
    THEN [ao |-> a, outstandingReqs |-> outstandingReqs, err |-> TRUE]
    ELSE applyAcksFrom(applyAck(a, bucket, seqNo, batch[i]), bucket, seqNo, batch,
             i + 1,
             IF a.correctRequests[batch[i].digest] # NoAck
             THEN outstandingReqs
             ELSE outstandingReqs \cup {batch[i].digest})

applyAcksAllocate(r, seqs, seqNo, s) ==
    [ao |-> r.ao, sequences |-> [seqs EXCEPT ![seqNo] = s.seq],
     actions |-> s.actions, err |-> FALSE]

applyAcksReturn(r, seqs, seqNo, batch) ==
    IF r.err
    THEN [ao |-> r.ao, sequences |-> seqs, actions |-> <<>>, err |-> TRUE]
    ELSE applyAcksAllocate(r, seqs, seqNo,
             sequenceAllocate(seqs[seqNo], seqNo, batch, r.outstandingReqs))

applyAcks(a, seqs, bucket, seqNo, batch) ==
    applyAcksReturn(applyAcksFrom(a, bucket, seqNo, batch, 1, {}), seqs, seqNo, batch)

-----------------------------------------------------------------------------
(* SpecReqs: newOutstandingReqs, then advanceRequests and applyAcks on     *)
(* arbitrary inputs while acks arrive in the available list.               *)

(* Client 0 has committed nothing; client 1 has either committed nothing  *)
(* or has low watermark 1 and request 3 committed above it.               *)
ReqNetworkStates ==
    {[c \in ClientIds |-> IF c = 0 THEN NetworkStateClient(0, {}) ELSE cl] :
        cl \in {NetworkStateClient(0, {}), NetworkStateClient(1, {3})}}

AvailableAcks == {RequestAck(0, 0, "a"), RequestAck(1, 1, "b")}

(* The digest of a request: requests 0 of all clients share one digest,   *)
(* the later requests another, so batches with and without equal digests  *)
(* are drawn.  Client 2 is unknown to the buckets.                        *)
digestOf(reqNo) == IF reqNo = 0 THEN "a" ELSE "b"

BatchAcks ==
    {RequestAck(c, r, digestOf(r)) : c \in ClientIds, r \in 0..MaxReqNo}
        \cup {RequestAck(2, 0, "a")}

Batches ==
    UNION {[1..n -> BatchAcks] : n \in 0..MaxBatch}

newSequences == [s \in SeqIds |-> newSequence]

ReqOp(op, r) ==
    [op |-> op, err |-> r.err, actions |-> r.actions]

ReqFrame == UNCHANGED <<persisted, walVars, smVars, workVars, ecVars, clVars>>

ReqInit ==
    /\ \E networkState \in ReqNetworkStates :
         ao = newOutstandingReqs(networkState, <<>>, newSequences).ao
    /\ availableList = <<>>
    /\ sequences = newSequences
    /\ reqOp = [op |-> "newOutstandingReqs", err |-> FALSE, actions |-> <<>>]
    /\ persisted = newPersisted
    /\ walPhase = "load"
    /\ walOp = NoOp
    /\ walPrev = newPersisted
    /\ walRet = <<>>
    /\ SMInitValues
    /\ WorkInitValues
    /\ EcInitValues
    /\ ClInitValues

(* The client tracker makes an ack available. *)
ReqAddAvailable ==
    /\ Len(availableList) < MaxAvailable
    /\ \E ack \in AvailableAcks :
         /\ availableList' = Append(availableList, ack)
         /\ reqOp' = ReqOp("addAvailable", [err |-> FALSE, actions |-> <<>>])
    /\ UNCHANGED <<ao, sequences>>
    /\ ReqFrame

ReqAdvanced(r) ==
    /\ ao' = r.ao
    /\ sequences' = r.sequences
    /\ reqOp' = ReqOp("advanceRequests", [err |-> FALSE, actions |-> r.actions])

ReqAdvanceRequests ==
    /\ ReqAdvanced(advanceRequests(ao, availableList, sequences))
    /\ UNCHANGED availableList
    /\ ReqFrame

ReqApplied(r) ==
    /\ ao' = r.ao
    /\ sequences' = r.sequences
    /\ reqOp' = ReqOp("applyAcks", r)

(* The sequences are allocated in order, each once. *)
ReqApplyAcks ==
    /\ \E bucket \in Buckets, seqNo \in SeqIds, batch \in Batches :
         /\ ~sequences[seqNo].allocated
         /\ \A s \in SeqIds : s < seqNo => sequences[s].allocated
         /\ ReqApplied(applyAcks(ao, sequences, bucket, seqNo, batch))
    /\ UNCHANGED availableList
    /\ ReqFrame

ReqNext ==
    \/ ReqAddAvailable
    \/ ReqAdvanceRequests
    \/ ReqApplyAcks

SpecReqs == ReqInit /\ [][ReqNext]_vars

-----------------------------------------------------------------------------
(* Properties of the write-ahead log store, checked under SpecWAL *)

Contiguous(log) ==
    \A i \in 1..(Len(log) - 1) : log[i + 1].index = log[i].index + 1

(* C4: during initial load the first record is accepted with any index;    *)
(* every later record is accepted exactly when its index is the previous   *)
(* index plus one, and any other index panics (WAL corruption).  Every     *)
(* accepted load therefore has strictly increasing indices with no gaps.   *)
C4_InitialLoadContiguous ==
    /\ walOp.op = "load" =>
         /\ (walPrev.log = <<>> => walPhase # "panic")
         /\ (walPrev.log # <<>> =>
               (walPhase = "panic" <=>
                  walOp.index # walPrev.log[Len(walPrev.log)].index + 1))
    /\ walPhase # "panic" =>
         /\ Contiguous(persisted.log)
         /\ \A i, j \in 1..Len(persisted.log) :
              i < j => persisted.log[i].index < persisted.log[j].index

C4_Witness ==
    /\ walPhase = "load"
    /\ walOp.op = "load"
    /\ Len(persisted.log) >= 2
    /\ persisted.log[1].index > 0

(* C5: appendLogEntry gives the record the index (tail index + 1), links   *)
(* it after the tail, advances nextIndex by exactly one and returns        *)
(* exactly one persist action carrying that index and record.              *)
C5_AppendAssignsNextIndex ==
    walOp.op = "append" =>
        LET tail == walPrev.log[Len(walPrev.log)]
            rec  == logEntry(tail.index + 1, walOp.entry)
        IN  /\ walPhase = "run"
            /\ persisted.log = Append(walPrev.log, rec)
            /\ persisted.nextIndex = walPrev.nextIndex + 1
            /\ persisted.nextIndex = rec.index + 1
            /\ walRet = <<PersistAction(rec.index, walOp.entry)>>

C5_Witness ==
    /\ walOp.op = "append"
    /\ walPrev.log[1].index > 0
    /\ Len(persisted.log) >= 3

(* The records truncate may make the head, stated on their own. *)
Retainable(entry, lw) ==
    \/ entry.type = "CEntry" /\ entry.seqNo >= lw
    \/ entry.type = "NEntry" /\ entry.seqNo > lw

RetainablePositions(log, lw) ==
    {i \in 1..Len(log) : Retainable(log[i].entry, lw)}

FirstRetainable(log, lw) ==
    CHOOSE i \in RetainablePositions(log, lw) :
        \A j \in RetainablePositions(log, lw) : i <= j

(* C6: truncate(lw) makes the new head the first record that is a CEntry   *)
(* with sequence >= lw or an NEntry with sequence > lw and drops what      *)
(* precedes it; it returns exactly one truncate action naming that         *)
(* record's index when the head moves, and returns nothing and leaves the  *)
(* log unchanged when that record is the head or does not exist.           *)
C6_TruncateToFirstRetained ==
    walOp.op = "truncate" =>
        IF RetainablePositions(walPrev.log, walOp.lw) = {}
        THEN persisted = walPrev /\ walRet = <<>>
        ELSE LET i == FirstRetainable(walPrev.log, walOp.lw)
             IN  IF i = 1
                 THEN persisted = walPrev /\ walRet = <<>>
                 ELSE /\ persisted.log = SubSeq(walPrev.log, i, Len(walPrev.log))
                      /\ persisted.nextIndex = walPrev.nextIndex
                      /\ walRet = <<TruncateAction(walPrev.log[i].index)>>

C6_Witness ==
    /\ walOp.op = "truncate"
    /\ Len(walPrev.log) = 3
    /\ Len(persisted.log) = 2
    /\ persisted.log[1].entry.type = "NEntry"
    /\ walRet # <<>>

CEntryPositions(log) == {i \in 1..Len(log) : log[i].entry.type = "CEntry"}

(* C7 as claimed: after truncate(lw) the earliest CEntry still in the log  *)
(* has sequence >= lw, and no NEntry with sequence <= lw remains unless no *)
(* retainable record follows it.                                           *)
C7_Original ==
    walOp.op = "truncate" =>
        LET log == persisted.log
            lw  == walOp.lw
        IN  /\ \A i \in CEntryPositions(log) :
                 (\A j \in CEntryPositions(log) : i <= j) => log[i].entry.seqNo >= lw
            /\ \A i \in 1..Len(log) :
                 (log[i].entry.type = "NEntry" /\ log[i].entry.seqNo <= lw) =>
                     \A j \in (i + 1)..Len(log) : ~Retainable(log[j].entry, lw)

(* C7 as amended: after truncate(lw) on a log that holds a retainable      *)
(* record (a CEntry with sequence >= lw or an NEntry with sequence > lw)   *)
(* the head of the log is such a record, and what remains is the suffix of *)
(* the old log that starts at its first retainable record, so that no      *)
(* CEntry with sequence < lw and no NEntry with sequence <= lw precedes a  *)
(* retained record; a log with no retainable record is left as it was.     *)
C7_TruncationSafety ==
    walOp.op = "truncate" =>
        LET log == persisted.log
            lw  == walOp.lw
        IN  IF RetainablePositions(walPrev.log, lw) = {}
            THEN log = walPrev.log
            ELSE /\ Retainable(log[1].entry, lw)
                 /\ \E k \in 1..Len(walPrev.log) :
                      /\ log = SubSeq(walPrev.log, k, Len(walPrev.log))
                      /\ \A m \in 1..(k - 1) : ~Retainable(walPrev.log[m].entry, lw)

C7_Witness ==
    /\ walOp.op = "truncate"
    /\ walOp.lw = 1
    /\ Len(walPrev.log) = 3
    /\ walPrev.log[1].entry = CEntry(0)
    /\ walPrev.log[2].entry = NEntry(1, 1)
    /\ Len(persisted.log) = 1

-----------------------------------------------------------------------------
(* Properties of the StateMachine, checked under Spec *)

components ==
    <<smState, persisted, checkpointTracker, commitState, clientTracker,
      batchTracker, epochTracker>>

(* C2: the lifecycle state only moves forward.  From uninitialized the     *)
(* only move is to loading, and it is made by Initialize; from loading the *)
(* only move is to initialized, and it is made by CompleteInitialization;  *)
(* an Initialize that does not abort leaves the machine loading, a         *)
(* CompleteInitialization that does not abort (the loaded log has a        *)
(* CEntry) leaves it initialized; nothing leaves initialized.              *)
C2_LifecycleForward ==
    [][ /\ smState = "smUninitialized" =>
              smState' \in {"smUninitialized", "smLoadingPersisted"}
        /\ smState = "smLoadingPersisted" =>
              smState' \in {"smLoadingPersisted", "smInitialized"}
        /\ smState = "smInitialized" => smState' = "smInitialized"
        /\ smState' # smState =>
              \/ /\ lastEvent'.type = "Initialize"
                 /\ smState' = "smLoadingPersisted"
              \/ /\ lastEvent'.type = "CompleteInitialization"
                 /\ smState' = "smInitialized"
        /\ (lastEvent'.type = "Initialize" /\ ~aborted /\ ~aborted') =>
              (smState = "smUninitialized" /\ smState' = "smLoadingPersisted")
        /\ (lastEvent'.type = "CompleteInitialization" /\ ~aborted /\ ~aborted') =>
              /\ smState = "smLoadingPersisted"
              /\ smState' = "smInitialized"
              /\ HasCEntry(persisted.log)
      ]_vars

(* A state transfer completed on an initialized machine, which is still    *)
(* initialized.                                                            *)
C2_Witness ==
    /\ smState = "smInitialized"
    /\ ~aborted
    /\ lastEvent.type = "Transfer"

OutOfPhase(type, state) ==
    \/ type = "Initialize" /\ state # "smUninitialized"
    \/ type \in {"LoadEntry", "CompleteInitialization"} /\ state # "smLoadingPersisted"
    \/ /\ type \in {"Tick", "Step", "AddResults", "AddClientResults"}
       /\ state # "smInitialized"

(* C3: an event applied out of its lifecycle phase (a second Initialize, a *)
(* LoadEntry or CompleteInitialization outside loading, a Tick, Step,      *)
(* AddResults or AddClientResults before the machine is initialized)       *)
(* aborts the process, returns nothing and changes no component.           *)
C3_OutOfPhaseAborts ==
    [][ (~aborted /\ OutOfPhase(lastEvent'.type, smState)) =>
            /\ aborted'
            /\ actions' = <<>>
            /\ UNCHANGED components
      ]_vars

(* A Tick during the load of a non-empty log aborted the process. *)
C3_Witness ==
    /\ aborted
    /\ lastEvent.type = "Tick"
    /\ smState = "smLoadingPersisted"
    /\ persisted.log # <<>>

(* C8: ActionsReceived and ClientActionsReceived return an empty batch,    *)
(* change no component, do not abort, and run neither the garbage          *)
(* collection step nor the drain loop, in every lifecycle state.           *)
C8_ActionsReceivedNoOp ==
    [][ (~aborted /\ lastEvent'.type \in {"ActionsReceived", "ClientActionsReceived"}) =>
            /\ ~aborted'
            /\ actions' = <<>>
            /\ UNCHANGED components
            /\ ~hist'.gc.ran
            /\ hist'.gc.cp = Nil
            /\ hist'.drains = <<>>
      ]_vars

(* ActionsReceived applied while a committed sequence waits above the      *)
(* window: there was work the drain loop would have looked at.             *)
C8_Witness ==
    /\ ~aborted
    /\ lastEvent.type = "ActionsReceived"
    /\ smState = "smInitialized"
    /\ epochTracker.buffered # {}
    /\ hist.commits # <<>>

StrictlyIncreasing(seq) ==
    \A i, j \in 1..Len(seq) : i < j => seq[i] < seq[j]

(* C9: the commit notifications returned since the last state transfer,    *)
(* over every drain of every iteration of every event, are in strictly     *)
(* increasing sequence number order, so none is returned twice.            *)
C9_CommitsStrictlyIncreasing == StrictlyIncreasing(hist.commits)

(* One event whose loop drained commits in two different iterations. *)
C9_Witness ==
    /\ ~aborted
    /\ \E i, j \in 1..Len(hist.drains) :
          i < j /\ hist.drains[i] # <<>> /\ hist.drains[j] # <<>>
    /\ Len(hist.commits) >= 3

identicalReports(cp, seqNo, digest) ==
    Cardinality({n \in Nodes : cp.votes[seqNo][n] = digest})

(* C10: when the dispatch of an event ends, the checkpoint tracker is      *)
(* garbage collectable, and the garbage collection step runs, if and only  *)
(* if for some sequence above its low watermark more than two thirds of    *)
(* the nodes reported one and the same digest; reports that disagree do    *)
(* not add up.                                                             *)
C10_CollectableIffQuorum ==
    hist.gc.cp # Nil =>
        LET quorum == \E s \in CpSeqs, d \in Digests :
                         /\ s > hist.gc.cp.lowWatermark
                         /\ 3 * identicalReports(hist.gc.cp, s, d) > 2 * NumNodes
        IN  /\ hist.gc.cp.state = "cpsGarbageCollectable" <=> quorum
            /\ hist.gc.ran <=> quorum

(* The garbage collection ran on three reports of d1 and one of d2: the    *)
(* three reports before the last one were d1, d1 and d2 and had not made   *)
(* the tracker collectable.                                                *)
C10_Witness ==
    /\ hist.gc.ran
    /\ \E s \in CpSeqs :
          /\ identicalReports(hist.gc.cp, s, "d1") = 3
          /\ identicalReports(hist.gc.cp, s, "d2") = 1

(* C11: applying one event runs the garbage collection combination at most *)
(* once and that is enough.  When it ran, the low watermarks of the        *)
(* checkpoint tracker and of the epoch tracker are the one value it        *)
(* computed, above the old one; when it did not run (and the event did not *)
(* reinitialize the components) the watermark has not moved; either way    *)
(* the checkpoint tracker is not garbage collectable when the event        *)
(* returns, so no second move is due.                                      *)
C11_GarbageCollectAtMostOnce ==
    [][ (smState = "smInitialized" /\ ~aborted /\ ~aborted') =>
          /\ checkpointTracker'.state # "cpsGarbageCollectable"
          /\ hist'.gc.ran =>
                /\ checkpointTracker'.lowWatermark = hist'.gc.newLow
                /\ epochTracker'.lowWatermark = hist'.gc.newLow
                /\ hist'.gc.newLow > hist'.gc.cp.lowWatermark
          /\ (~hist'.gc.ran /\ lastEvent'.type # "Transfer") =>
                checkpointTracker'.lowWatermark = checkpointTracker.lowWatermark
      ]_vars

(* The combination ran for the second checkpoint of the run: the log, the  *)
(* batch tracker and the watermarks all moved.                             *)
C11_Witness ==
    /\ ~aborted
    /\ hist.gc.ran
    /\ hist.gc.newLow > CheckpointInterval
    /\ batchTracker.lowSeq = hist.gc.newLow - CheckpointInterval

-----------------------------------------------------------------------------
(* Properties of allOutstandingReqs, checked under SpecReqs *)

(* The next request number of client c in the bucket after k of its       *)
(* requests were taken: k steps of one bucket stride each, every step     *)
(* followed by the skip over committed request numbers.                   *)
RECURSIVE nextExpected(_, _, _, _)
nextExpected(a, bucket, c, k) ==
    IF k = 0
    THEN a.buckets[bucket][c]
    ELSE skipPreviouslyCommitted(nextExpected(a, bucket, c, k - 1) + NumberOfBuckets,
                                 a.networkState[c])

earlierOfClient(batch, i) ==
    Cardinality({j \in 1..(i - 1) : batch[j].clientId = batch[i].clientId})

matchesNextExpected(a, bucket, batch, i) ==
    /\ batch[i].clientId \in ClientIds
    /\ batch[i].reqNo =
           nextExpected(a, bucket, batch[i].clientId, earlierOfClient(batch, i))

allMatch(a, bucket, batch) ==
    \A i \in 1..Len(batch) : matchesNextExpected(a, bucket, batch, i)

applyAcksStrict(bucket, seqNo, batch, r) ==
    /\ r.err <=> ~allMatch(ao, bucket, batch)
    /\ r.err => r.actions = <<>> /\ r.sequences = sequences
    /\ ~r.err =>
          /\ Len(r.actions) = 1
          /\ r.actions[1].kind = "allocated"
          /\ r.actions[1].seqNo = seqNo
          /\ r.sequences[seqNo].allocated

(* C12: in every reachable state and for every bucket, unallocated        *)
(* sequence and batch, applyAcks returns an error and no actions when     *)
(* some request of the batch names an unknown client or a request number  *)
(* other than the client's next request number of the bucket at the time  *)
(* the request is processed, and returns the allocation of the sequence   *)
(* exactly when every request, in batch order, matches; the last call     *)
(* made returned no actions if it returned an error.                      *)
C12_ApplyAcksStrict ==
    /\ \A bucket \in Buckets, seqNo \in SeqIds, batch \in Batches :
          ~sequences[seqNo].allocated =>
              applyAcksStrict(bucket, seqNo, batch,
                              applyAcks(ao, sequences, bucket, seqNo, batch))
    /\ (reqOp.op = "applyAcks" /\ reqOp.err) => reqOp.actions = <<>>

(* A batch of two requests was allocated to sequence 1 and a later        *)
(* applyAcks returned an error.                                           *)
C12_Witness ==
    /\ reqOp.op = "applyAcks"
    /\ reqOp.err
    /\ sequences[1].allocated
    /\ sequences[1].registered = ReqDigests

satisfactions(seq, d) ==
    Cardinality({i \in 1..Len(seq.satisfied) : seq.satisfied[i] = d})

(* applyAcks clears a digest that is known correct and does not register  *)
(* it outstanding.                                                        *)
clearsCorrect(batch, r) ==
    \A i \in 1..Len(batch) :
        ao.correctRequests[batch[i].digest] # NoAck =>
            /\ batch[i].digest \notin r.actions[1].outstanding
            /\ r.ao.correctRequests[batch[i].digest] = NoAck
            /\ r.ao.outstandingRequests[batch[i].digest]
                   = ao.outstandingRequests[batch[i].digest]

(* A digest registered outstanding on a sequence either still waits, with *)
(* the tracker pointing at the sequence so that the next ack drained      *)
(* satisfies it, or was satisfied exactly once.                           *)
resolvedOnce(s, d) ==
    \/ /\ d \in sequences[s].outstanding
       /\ satisfactions(sequences[s], d) = 0
       /\ ao.outstandingRequests[d] = s
    \/ /\ d \notin sequences[s].outstanding
       /\ satisfactions(sequences[s], d) = 1

(* C13: a digest that is known correct when applyAcks assigns it is       *)
(* cleared at once and never registered outstanding, and a digest that    *)
(* applyAcks registered outstanding on a sequence is satisfied on that    *)
(* sequence exactly once by the advanceRequests that drains its ack, and  *)
(* never a second time.                                                   *)
C13_ResolvedExactlyOnce ==
    /\ \A bucket \in Buckets, seqNo \in SeqIds, batch \in Batches :
          (~sequences[seqNo].allocated
              /\ ~applyAcks(ao, sequences, bucket, seqNo, batch).err) =>
                  clearsCorrect(batch, applyAcks(ao, sequences, bucket, seqNo, batch))
    /\ \A s \in SeqIds : \A d \in ReqDigests :
          (sequences[s].allocated /\ d \in sequences[s].registered) =>
              resolvedOnce(s, d)

-----------------------------------------------------------------------------
(* Properties of the state machine's result processing, checked under Spec *)

ResultSeqs == {0} \cup CpSeqs

checkpointResults(checkpoints) == [checkpoints |-> checkpoints, digests |-> <<>>]

addResultsEvent(checkpoints) ==
    [type |-> "AddResults", results |-> checkpointResults(checkpoints)]

(* One checkpoint result, judged against the machine m it meets. *)
checkpointResultJudged(m, s, r) ==
    /\ s < m.commitState.lowWatermark =>
          r.m = m /\ r.actions = <<>> /\ ~r.panic
    /\ (s >= m.commitState.lowWatermark
           /\ s # m.commitState.lowWatermark + CheckpointInterval) =>
          r.panic /\ r.m.commitState = m.commitState /\ r.m.persisted = m.persisted
    /\ (s = m.commitState.lowWatermark + CheckpointInterval
           /\ ~m.commitState.transferring /\ ~r.panic) =>
          r.m.commitState.lowWatermark = s

(* The second of two results meets the machine the first one left. *)
secondResultJudged(m, s1, s2, r1, r) ==
    IF r1.panic
    THEN r.panic /\ r.m = r1.m
    ELSE /\ checkpointResultJudged(r1.m, s2, processResults(r1.m, checkpointResults(<<s2>>)))
         /\ r.m = processResults(r1.m, checkpointResults(<<s2>>)).m
         /\ r.panic = processResults(r1.m, checkpointResults(<<s2>>)).panic

(* C14: in every reachable initialized state and for every AddResults     *)
(* event of one or two checkpoint results, a result below the low         *)
(* watermark current at its turn changes nothing and adds no action (an   *)
(* event of one such result leaves the whole machine as it was and        *)
(* returns no action); any other result aborts the process with the       *)
(* commit state and the log untouched unless its sequence number is the   *)
(* low watermark plus the checkpoint interval, in which case the low      *)
(* watermark moves to it.                                                 *)
C14_CheckpointResultCadence ==
    (smState = "smInitialized" /\ ~aborted) =>
        /\ \A s \in ResultSeqs :
              /\ checkpointResultJudged(Machine, s,
                     processResults(Machine, checkpointResults(<<s>>)))
              /\ s < commitState.lowWatermark =>
                    /\ applyEvent(Machine, addResultsEvent(<<s>>)).m = Machine
                    /\ applyEvent(Machine, addResultsEvent(<<s>>)).actions = <<>>
                    /\ ~applyEvent(Machine, addResultsEvent(<<s>>)).panic
        /\ \A s1, s2 \in ResultSeqs :
              secondResultJudged(Machine, s1, s2,
                  processResults(Machine, checkpointResults(<<s1>>)),
                  processResults(Machine, checkpointResults(<<s1, s2>>)))

(* An AddResults event moved the low watermark and a later one, whose     *)
(* result was not below it and not one interval above it, aborted.        *)
C14_Witness ==
    /\ smState = "smInitialized"
    /\ lastEvent.type = "AddResults"
    /\ aborted
    /\ commitState.lowWatermark >= CheckpointInterval

transferEvent(seqNo) == [type |-> "Transfer", seqNo |-> seqNo]

staleTransfer(seqNo) ==
    \/ ~commitState.transferring
    \/ seqNo < commitState.transferTarget

(* C15: in every reachable initialized state, a Transfer event that       *)
(* arrives while no state transfer is outstanding, or that completes a    *)
(* transfer to a lower sequence number than the one requested, is         *)
(* ignored: the process does not abort, no CEntry is appended and no      *)
(* component is reinitialized.                                            *)
C15_StaleTransferIgnored ==
    (smState = "smInitialized" /\ ~aborted) =>
        \A seqNo \in CpSeqs :
            staleTransfer(seqNo) =>
                /\ ~applyEvent(Machine, transferEvent(seqNo)).panic
                /\ applyEvent(Machine, transferEvent(seqNo)).m = Machine

addResultsDigestsEvent(digests) ==
    [type |-> "AddResults", results |-> [checkpoints |-> <<>>, digests |-> digests]]

(* C17: in every reachable initialized state, an AddResults event whose   *)
(* hash results include a request verification or a batch verification    *)
(* with a computed digest other than the claimed one does not abort the   *)
(* process: the offending result is rejected and the results behind it    *)
(* are processed.                                                         *)
C17_PeerViolationsNeverAbort ==
    (smState = "smInitialized" /\ ~aborted) =>
        \A digests \in HashResultLists :
            (\E i \in 1..Len(digests) : ~digests[i].matches) =>
                ~applyEvent(Machine, addResultsDigestsEvent(digests)).panic

-----------------------------------------------------------------------------
(* Properties of recovery.  Under SpecWAL the loaded log is the one the    *)
(* store holds when loading ends.                                          *)

(* The machine that has loaded the log p. *)
loaded(p) == [initialize(newStateMachine).m EXCEPT !.persisted = p]

completeInitializationEvent == [type |-> "CompleteInitialization"]

commitActions(acts) == SelectSeq(acts, LAMBDA a : a.kind = "commit")

firstCEntryPosition(log) ==
    IF HasCEntry(log)
    THEN CHOOSE i \in 1..Len(log) :
             /\ log[i].entry.type = "CEntry"
             /\ \A j \in 1..(i - 1) : log[j].entry.type # "CEntry"
    ELSE Len(log) + 1

FEntryBeforeCEntry(log) ==
    \E i \in 1..Len(log) :
        log[i].entry.type = "FEntry" /\ i < firstCEntryPosition(log)

(* SpecRecover: the StateMachine is initialized, loads a log of up to      *)
(* MaxLog records, completes its initialization and is then fed events     *)
(* that bring no ordering progress: ticks, checkpoint messages of the      *)
(* other replicas, request results, empty results and the two              *)
(* acknowledgements.  walPrev keeps the store as CompleteInitialization    *)
(* found it.                                                               *)
RecLoadEntries ==
    {CEntry(0), CEntry(CheckpointInterval), NEntry(1, 1), PEntry(1), FEntry(0)}

RecInitialize == smState = "smUninitialized" /\ Initialize

RecLoadEntry ==
    /\ smState = "smLoadingPersisted"
    /\ Len(persisted.log) < MaxLog
    /\ \E index \in 0..(MaxLog - 1), data \in RecLoadEntries :
         Apply([type |-> "LoadEntry", index |-> index, data |-> data])

RecCompleteInitialization ==
    /\ smState = "smLoadingPersisted"
    /\ ~aborted
    /\ Applied(completeInitializationEvent,
               applyEvent(Machine, completeInitializationEvent))
    /\ walPrev' = persisted
    /\ UNCHANGED <<walPhase, walOp, walRet, reqVars, workVars, ecVars, clVars>>

RecAddResults ==
    Apply([type |-> "AddResults",
           results |-> [checkpoints |-> <<>>, digests |-> <<>>]])

RecNext ==
    \/ RecInitialize
    \/ RecLoadEntry
    \/ RecCompleteInitialization
    \/ Tick
    \/ StepCheckpoint
    \/ RecAddResults
    \/ AddClientResults
    \/ ActionsReceived
    \/ ClientActionsReceived

SpecRecover == Init /\ [][RecNext]_vars

(* Nothing has aborted, the high and the low watermark are at the last     *)
(* CEntry of the loaded log, and no commit has been reported since the     *)
(* machine was made.                                                       *)
recoveredAtLastCEntry(log) ==
    /\ ~aborted
    /\ commitState.highestCommit = lastCEntrySeqNo(log, Len(log))
    /\ commitState.lowWatermark = lastCEntrySeqNo(log, Len(log))
    /\ commitActions(actions) = <<>>
    /\ hist.commits = <<>>

(* C18 as stated: for every loaded log with strictly increasing indices   *)
(* that holds a CEntry, CompleteInitialization leaves the high watermark  *)
(* at the sequence number of the last CEntry and neither it nor any later *)
(* event without ordering progress reports a commit.                      *)
C18_Original ==
    (smState = "smInitialized" /\ HasCEntry(walPrev.log)) =>
        recoveredAtLastCEntry(walPrev.log)

(* C18: the same for every such log in which no FEntry stands before the  *)
(* first CEntry, after CompleteInitialization and after every sequence of *)
(* later events without ordering progress; a log whose FEntry stands      *)
(* before every CEntry aborts CompleteInitialization.                     *)
C18_RecoveryAtLastCEntry ==
    smState = "smInitialized" =>
        /\ (HasCEntry(walPrev.log) /\ ~FEntryBeforeCEntry(walPrev.log)) =>
              recoveredAtLastCEntry(walPrev.log)
        /\ FEntryBeforeCEntry(walPrev.log) => aborted

(* A loaded log of two checkpoints, the later one above zero, and an      *)
(* FEntry behind them; after recovery the other replicas' checkpoint      *)
(* messages made a checkpoint above the high watermark stable and the     *)
(* garbage collection step ran.                                           *)
C18_Witness ==
    /\ smState = "smInitialized"
    /\ ~aborted
    /\ Len(walPrev.log) = MaxLog
    /\ walPrev.log[1].entry.type = "CEntry"
    /\ walPrev.log[2].entry = CEntry(CheckpointInterval)
    /\ walPrev.log[MaxLog].entry.type = "FEntry"
    /\ lastEvent.type = "Step"
    /\ hist.gc.ran
    /\ checkpointTracker.lowWatermark > commitState.highestCommit

(* The log p after one truncation per FEntry of log, in log order from    *)
(* position k, each to the sequence number of the last CEntry before the  *)
(* FEntry, with the truncate actions produced.                            *)
RECURSIVE truncatedAtFEntries(_, _, _, _)
truncatedAtFEntries(log, k, p, acts) ==
    IF k > Len(log)
    THEN [p |-> p, actions |-> acts]
    ELSE IF log[k].entry.type = "FEntry"
    THEN truncatedAtFEntries(log, k + 1,
             truncate(p, lastCEntrySeqNo(log, k - 1)).p,
             acts \o truncate(p, lastCEntrySeqNo(log, k - 1)).actions)
    ELSE truncatedAtFEntries(log, k + 1, p, acts)

recoveredOrAborted(p, r, expected) ==
    IF ~HasCEntry(p.log) \/ FEntryBeforeCEntry(p.log)
    THEN r.panic
    ELSE /\ ~r.panic
         /\ r.p = expected.p
         /\ r.actions = expected.actions

(* C19: for every log the store can hold, recoverLog aborts if the log    *)
(* has no CEntry or an FEntry before any CEntry; otherwise it truncates   *)
(* the log, for each FEntry in log order, to the sequence number of the   *)
(* last CEntry before that FEntry and returns the truncate actions.       *)
C19_RecoverLogAbortsWithoutCEntry ==
    walPhase \in {"load", "run"} =>
        recoveredOrAborted(persisted, recoverLog(loaded(persisted)),
                           truncatedAtFEntries(persisted.log, 1, persisted, <<>>))

-----------------------------------------------------------------------------
(* Properties of what follows the switch of applyEvent, checked under Spec *)

(* The event kinds whose case falls out of the switch, and those whose    *)
(* case returns inside it.                                                *)
FallThroughKinds == {"Tick", "Step", "AddResults", "AddClientResults", "Transfer"}

ReturningKinds ==
    {"Initialize", "LoadEntry", "CompleteInitialization", "ActionsReceived",
     "ClientActionsReceived"}

(* moveLowWatermark is called in the garbage collection step, and          *)
(* advanceState once per round of the loop.                               *)
moveLowWatermarkCalled == hist.gc.ran

advanceStateCalls == Len(hist.drains)

(* C20 as stated: after every applied event, of every kind, both          *)
(* moveLowWatermark and advanceState were called before the actions were  *)
(* returned.                                                              *)
C20_Original ==
    (lastEvent.type # "none" /\ ~aborted) =>
        moveLowWatermarkCalled /\ advanceStateCalls >= 1

(* C20: after an applied Tick, Step, AddResults, AddClientResults or      *)
(* Transfer event advanceState was called at least once, and              *)
(* moveLowWatermark was called exactly if the checkpoint tracker was      *)
(* garbage collectable after the switch; after an applied Initialize,     *)
(* LoadEntry, CompleteInitialization, ActionsReceived or                  *)
(* ClientActionsReceived event neither was called.                        *)
C20_AdvanceAfterFallThrough ==
    (lastEvent.type # "none" /\ ~aborted) =>
        /\ lastEvent.type \in FallThroughKinds \cup ReturningKinds
        /\ lastEvent.type \in FallThroughKinds =>
              /\ advanceStateCalls >= 1
              /\ moveLowWatermarkCalled
                    <=> hist.gc.cp.state = "cpsGarbageCollectable"
        /\ lastEvent.type \in ReturningKinds =>
              /\ advanceStateCalls = 0
              /\ ~moveLowWatermarkCalled

(* A Step event in which moveLowWatermark was called for the second       *)
(* checkpoint and advanceState was called behind it.                      *)
C20_Witness ==
    /\ ~aborted
    /\ lastEvent.type = "Step"
    /\ moveLowWatermarkCalled
    /\ hist.gc.newLow > CheckpointInterval
    /\ advanceStateCalls >= 1

-----------------------------------------------------------------------------
(* ClientWork.  Every method holds cw.mutex from its first statement to   *)
(* its return, so each is one step.  A channel is a number; readyC = 0 is *)
(* the nil channel.  Closing a closed channel panics.                      *)

MaxAcks == 3   \* addPersistedReq is called at most MaxAcks times

WorkAcks == {RequestAck(0, 0, "a"), RequestAck(1, 0, "b")}

(* cw.results: the nil pointer, or a ClientActionResults. *)
NilResults == [isNil |-> TRUE, PersistedRequests |-> <<>>]

newClientWork == [readyC |-> 0, results |-> NilResults]

makeChan(ch) == [ch EXCEPT !.made = @ + 1]

closeChan(ch, c) ==
    IF c \in ch.closed
    THEN [ch EXCEPT !.panicked = TRUE]
    ELSE [ch EXCEPT !.closed = @ \cup {c}]

(* A mutant of ReadyMade: the new channel is left open. *)
ReadyMadeOpen(w, ch) ==
    [cw |-> [w EXCEPT !.readyC = ch.made], chans |-> ch, ret |-> ch.made]

(* Ready: [cw, chans, ret] *)
ReadyMade(w, ch) ==
    [cw    |-> [w EXCEPT !.readyC = ch.made],
     chans |-> IF ~w.results.isNil THEN closeChan(ch, ch.made) ELSE ch,
     ret   |-> ch.made]

Ready(w, ch) ==
    IF w.readyC = 0
    THEN ReadyMade(w, makeChan(ch))
    ELSE [cw |-> w, chans |-> ch, ret |-> w.readyC]

(* Results: [cw, ret] *)
Results(w) ==
    [cw |-> [w EXCEPT !.readyC = 0, !.results = NilResults], ret |-> w.results]

(* A mutant of addPersistedReq: the channel is not closed. *)
addPersistedReqSilent(w, ch, ack) ==
    [cw    |-> [w EXCEPT !.results =
                    [isNil |-> FALSE,
                     PersistedRequests |-> Append(w.results.PersistedRequests, ack)]],
     chans |-> ch]

(* addPersistedReq: [cw, chans] *)
addPersistedReq(w, ch, ack) ==
    [cw    |-> [w EXCEPT !.results =
                    [isNil |-> FALSE,
                     PersistedRequests |-> Append(w.results.PersistedRequests, ack)]],
     chans |-> IF w.results.isNil /\ w.readyC # 0
               THEN closeChan(ch, w.readyC)
               ELSE ch]

WorkFrame == UNCHANGED <<persisted, walVars, smVars, reqVars, ecVars, clVars>>

WorkInit ==
    /\ cw = newClientWork
    /\ workChans = [made |-> 0, closed |-> {}, panicked |-> FALSE]
    /\ consumer = [pc |-> "Ready", c |-> 0]
    /\ workLog = [added |-> <<>>, returned |-> <<>>, calls |-> 0, last |-> NilResults]
    /\ persisted = newPersisted
    /\ walPhase = "load"
    /\ walOp = NoOp
    /\ walPrev = newPersisted
    /\ walRet = <<>>
    /\ SMInitValues
    /\ ReqInitValues
    /\ EcInitValues
    /\ ClInitValues

WorkReadyReturned(r) ==
    /\ cw' = r.cw
    /\ workChans' = r.chans
    /\ consumer' = [pc |-> "receive", c |-> r.ret]

(* The consumer calls Ready. *)
WorkReady ==
    /\ consumer.pc = "Ready"
    /\ ~workChans.panicked
    /\ WorkReadyReturned(Ready(cw, workChans))
    /\ UNCHANGED workLog
    /\ WorkFrame

(* The consumer receives from the channel it was given: a receive from a  *)
(* closed channel returns, one from an open channel nobody sends on       *)
(* blocks.                                                                 *)
WorkReceive ==
    /\ consumer.pc = "receive"
    /\ consumer.c \in workChans.closed
    /\ consumer' = [consumer EXCEPT !.pc = "Results"]
    /\ UNCHANGED <<cw, workChans, workLog>>
    /\ WorkFrame

WorkResultsReturned(r) ==
    /\ cw' = r.cw
    /\ workLog' = [workLog EXCEPT
                      !.returned = @ \o r.ret.PersistedRequests,
                      !.calls = @ + 1,
                      !.last = r.ret]

(* The consumer calls Results. *)
WorkResults ==
    /\ consumer.pc = "Results"
    /\ WorkResultsReturned(Results(cw))
    /\ consumer' = [pc |-> "Ready", c |-> 0]
    /\ UNCHANGED workChans
    /\ WorkFrame

WorkAdded(r, ack) ==
    /\ cw' = r.cw
    /\ workChans' = r.chans
    /\ workLog' = [workLog EXCEPT !.added = Append(@, ack)]

(* Some producer calls addPersistedReq. *)
WorkAddPersistedReq ==
    /\ Len(workLog.added) < MaxAcks
    /\ ~workChans.panicked
    /\ \E ack \in WorkAcks : WorkAdded(addPersistedReq(cw, workChans, ack), ack)
    /\ UNCHANGED consumer
    /\ WorkFrame

WorkNext ==
    \/ WorkReady
    \/ WorkReceive
    \/ WorkResults
    \/ WorkAddPersistedReq

SpecWork == WorkInit /\ [][WorkNext]_vars

(* C21: with one consumer that repeats Ready, receive, Results and with   *)
(* concurrent addPersistedReq calls, the channel the consumer waits on is *)
(* readable exactly when an ack was added since the last Results, no      *)
(* channel is closed twice, every Results call returned a non-nil result, *)
(* and the acks returned so far followed by those still held are the acks *)
(* added, in insertion order.                                             *)
C21_ClientWorkHandsOver ==
    /\ ~workChans.panicked
    /\ consumer.pc = "receive" =>
          /\ consumer.c = cw.readyC
          /\ consumer.c \in workChans.closed <=> ~cw.results.isNil
    /\ consumer.pc = "Results" => ~cw.results.isNil
    /\ workLog.calls > 0 =>
          ~workLog.last.isNil /\ workLog.last.PersistedRequests # <<>>
    /\ cw.results.isNil <=> cw.results.PersistedRequests = <<>>
    /\ workLog.returned \o cw.results.PersistedRequests = workLog.added

(* The consumer took two results, the second of two acks, and waits on a  *)
(* third channel.                                                          *)
C21_Witness ==
    /\ workLog.calls = 2
    /\ Len(workLog.last.PersistedRequests) = 2
    /\ Len(workLog.returned) = MaxAcks
    /\ consumer.pc = "receive"

-----------------------------------------------------------------------------
(* C22: when the garbage collection step of an event has truncated the log *)
(* to the new low watermark L, the same event has left the batch tracker   *)
(* truncated at exactly L - CheckpointInterval and has drained commits     *)
(* only afterwards.  L is never below the checkpoint interval, so the      *)
(* difference does not wrap around, and the batches of the interval just   *)
(* before L (sequences L - CheckpointInterval .. L) are not below the      *)
(* batch tracker's bound.                                                  *)
C22_BatchTrackerOneIntervalBehind ==
    (smState = "smInitialized" /\ ~aborted /\ hist.gc.ran) =>
        /\ hist.gc.newLow >= CheckpointInterval
        /\ batchTracker.lowSeq = hist.gc.newLow - CheckpointInterval
        /\ batchTracker.lowSeq + CheckpointInterval = checkpointTracker.lowWatermark
        /\ persisted = truncate(persisted, hist.gc.newLow).p
        /\ Len(hist.drains) >= 1

(* Both cases of the step were taken: the first checkpoint of the run,     *)
(* where the bound is 0, and a later one, where the bound is positive.     *)
C22_Witness ==
    /\ smState = "smInitialized"
    /\ ~aborted
    /\ hist.gc.ran
    /\ hist.gc.newLow = 2 * CheckpointInterval
    /\ batchTracker.lowSeq = CheckpointInterval
    /\ Len(hist.drains) >= 1

-----------------------------------------------------------------------------
(* C23: after a Tick, Step, AddResults, AddClientResults or Transfer event *)
(* the loop has made as many drain calls as advanceState calls, a drain    *)
(* first; every advanceState call but the last returned something and the  *)
(* last returned nothing; the event's actions are what was collected       *)
(* before the loop followed by drain 1, advanceState 1, drain 2, ... in    *)
(* that order; and the number of rounds is bounded by the sequences that   *)
(* can be waiting for their commit.                                        *)
RECURSIVE loopRounds(_, _, _)
loopRounds(drains, advances, i) ==
    IF i > Len(drains) THEN <<>>
    ELSE drains[i] \o advances[i] \o loopRounds(drains, advances, i + 1)

MaxRounds == MaxSeq + 1

C23_DrainAdvanceLoop ==
    (lastEvent.type \in FallThroughKinds /\ ~aborted) =>
        /\ Len(hist.drains) >= 1
        /\ Len(hist.advances) = Len(hist.drains)
        /\ Len(hist.drains) <= MaxRounds
        /\ \A i \in 1..Len(hist.advances) :
              hist.advances[i] = <<>> <=> i = Len(hist.advances)
        /\ \A i \in 1..Len(hist.drains) :
              \A j \in 1..Len(hist.drains[i]) : hist.drains[i][j].kind = "commit"
        /\ actions = hist.before \o loopRounds(hist.drains, hist.advances, 1)

(* The loop went round three times, delivered commits in two of them and   *)
(* started from actions that the event's handler had returned.             *)
C23_Witness ==
    /\ lastEvent.type \in FallThroughKinds
    /\ ~aborted
    /\ Len(hist.advances) >= 3
    /\ hist.before # <<>>
    /\ \E i, j \in 1..Len(hist.drains) :
          i < j /\ hist.drains[i] # <<>> /\ hist.drains[j] # <<>>

-----------------------------------------------------------------------------
(* C24: whenever an event moves the head of the in-memory log, the actions *)
(* returned for that event contain the truncate action that names the new  *)
(* head's index.                                                           *)
headIndex(p) == p.log[1].index

headMoved(p, q) ==
    /\ p # Nil /\ q # Nil
    /\ p.log # <<>> /\ q.log # <<>>
    /\ headIndex(p) # headIndex(q)

truncateRequested(acts, index) ==
    \E i \in 1..Len(acts) : acts[i] = TruncateAction(index)

C24_HeadMoveIsReturned ==
    [][ (~aborted' /\ headMoved(persisted, persisted')) =>
            truncateRequested(actions', headIndex(persisted')) ]_vars

-----------------------------------------------------------------------------
(* C25: when applyAcks returns an error, the tracker is as it was before   *)
(* the call: no next request number has moved, no digest has entered the   *)
(* outstanding set or left the known-correct set, and the sequence is not  *)
(* allocated, wherever in the batch the offending request stands.          *)
rejectedWhole(a, seqs, r) ==
    r.err => /\ r.ao.buckets = a.buckets
             /\ r.ao.outstandingRequests = a.outstandingRequests
             /\ r.ao.correctRequests = a.correctRequests
             /\ r.sequences = seqs

C25_ErrorLeavesTrackerUnchanged ==
    \A bucket \in Buckets, seqNo \in SeqIds, batch \in Batches :
        ~sequences[seqNo].allocated =>
            rejectedWhole(ao, sequences,
                          applyAcks(ao, sequences, bucket, seqNo, batch))

-----------------------------------------------------------------------------
(* C26: a digest that applyAcks registered as outstanding against a        *)
(* sequence is resolved on that sequence by the advanceRequests that reads *)
(* an ack with that digest from the available list: for every sequence     *)
(* that still waits for the digest, also when several sequences wait for   *)
(* the same digest, satisfyOutstanding is called on it.                    *)
unreadDigests(a, available) ==
    {available[i].digest : i \in (a.availableIterator + 1)..Len(available)}

resolvedOnRegistering(seqs, r, s, d) ==
    /\ d \notin r.sequences[s].outstanding
    /\ satisfactions(r.sequences[s], d) = satisfactions(seqs[s], d) + 1

C26_RegistrationsResolved ==
    \A s \in SeqIds : \A d \in unreadDigests(ao, availableList) :
        (sequences[s].allocated /\ d \in sequences[s].outstanding) =>
            resolvedOnRegistering(sequences,
                advanceRequests(ao, availableList, sequences), s, d)

-----------------------------------------------------------------------------
(* C27: advanceRequests reads every unread ack of the available list once, *)
(* in the list's order.  Of the unread acks with one digest, the first     *)
(* satisfies the sequence the digest is outstanding for and takes the      *)
(* digest out of the outstanding set, and every other one is stored as     *)
(* known correct (the last one stays).  Afterwards no ack is unread, so a  *)
(* second call does nothing; only newOutstandingReqs, which resets the     *)
(* iterator, reads the list again from its start.                          *)
unreadAt(a, available, d) ==
    {i \in (a.availableIterator + 1)..Len(available) : available[i].digest = d}

firstUnread(a, available, d) ==
    CHOOSE i \in unreadAt(a, available, d) : \A j \in unreadAt(a, available, d) : i <= j

lastUnread(a, available, d) ==
    CHOOSE i \in unreadAt(a, available, d) : \A j \in unreadAt(a, available, d) : i >= j

(* The digests whose first unread ack satisfies a sequence. *)
satisfiable(a, available) ==
    {d \in unreadDigests(a, available) : a.outstandingRequests[d] # 0}

digestConsumed(a, available, r, d) ==
    IF unreadAt(a, available, d) = {}
    THEN /\ r.ao.outstandingRequests[d] = a.outstandingRequests[d]
         /\ r.ao.correctRequests[d] = a.correctRequests[d]
    ELSE /\ r.ao.outstandingRequests[d] = 0
         /\ r.ao.correctRequests[d] =
               IF a.outstandingRequests[d] # 0
                     /\ Cardinality(unreadAt(a, available, d)) = 1
               THEN a.correctRequests[d]
               ELSE available[lastUnread(a, available, d)]

satisfiedInOrder(a, available, r) ==
    /\ Len(r.actions) = Cardinality(satisfiable(a, available))
    /\ \A k \in 1..Len(r.actions) :
          /\ r.actions[k].kind = "satisfied"
          /\ r.actions[k].digest \in satisfiable(a, available)
          /\ r.actions[k].seqNo = a.outstandingRequests[r.actions[k].digest]
    /\ \A j, k \in 1..Len(r.actions) :
          j < k => firstUnread(a, available, r.actions[j].digest)
                       < firstUnread(a, available, r.actions[k].digest)

sequenceSatisfied(a, available, seqs, r, s) ==
    /\ r.sequences[s].satisfied =
          seqs[s].satisfied \o
              [k \in 1..Len(SelectSeq(r.actions, LAMBDA x : x.seqNo = s)) |->
                  SelectSeq(r.actions, LAMBDA x : x.seqNo = s)[k].digest]
    /\ r.sequences[s].outstanding =
          seqs[s].outstanding \
              {d \in satisfiable(a, available) : a.outstandingRequests[d] = s}

allConsumed(a, available, seqs, r) ==
    /\ r.ao.availableIterator = Len(available)
    /\ r.ao.buckets = a.buckets
    /\ \A d \in ReqDigests : digestConsumed(a, available, r, d)
    /\ satisfiedInOrder(a, available, r)
    /\ \A s \in SeqIds : sequenceSatisfied(a, available, seqs, r, s)
    /\ advanceRequests(r.ao, available, r.sequences)
          = [ao |-> r.ao, sequences |-> r.sequences, actions |-> <<>>]

rereadFromStart(a, available, r) ==
    /\ r.ao.availableIterator = Len(available)
    /\ \A d \in ReqDigests :
          r.ao.correctRequests[d] # NoAck
              <=> \E i \in 1..Len(available) : available[i].digest = d

C27_AdvanceRequestsConsumesAll ==
    /\ ao.availableIterator <= Len(availableList)
    /\ allConsumed(ao, availableList, sequences,
                   advanceRequests(ao, availableList, sequences))
    /\ rereadFromStart(ao, availableList,
                       newOutstandingReqs(ao.networkState, availableList, newSequences))
    /\ reqOp.op = "advanceRequests" => ao.availableIterator = Len(availableList)

(* advanceRequests has just read two acks with the same digest: the first  *)
(* satisfied the sequence that waited for it, the second is known correct. *)
C27_Witness ==
    /\ reqOp.op = "advanceRequests"
    /\ Len(reqOp.actions) = 1
    /\ ao.availableIterator = 2
    /\ availableList[1].digest = availableList[2].digest
    /\ ao.correctRequests[availableList[2].digest] = availableList[2]
    /\ \E s \in SeqIds : sequences[s].satisfied = <<availableList[1].digest>>

-----------------------------------------------------------------------------
(* C28: for every bucket and client the next expected request number falls *)
(* into the bucket, is not committed for the client and is not below the   *)
(* client's low watermark; after newOutstandingReqs it is the smallest     *)
(* such number; applyAcks never lowers it, moves it by multiples of the    *)
(* number of buckets only, in the bucket it was called for only, and by at *)
(* least one multiple for each request it accepted.                        *)
expectable(b, c, client, n) ==
    /\ clientReqToBucket(c, n) = b
    /\ ~isCommitted(n, client)
    /\ n >= client.lowWatermark

nextReqNosExpectable(a) ==
    \A b \in Buckets, c \in ClientIds :
        expectable(b, c, a.networkState[c], a.buckets[b][c])

nextReqNosSmallest(a) ==
    \A b \in Buckets, c \in ClientIds :
        \A n \in 0..a.buckets[b][c] :
            expectable(b, c, a.networkState[c], n) => n = a.buckets[b][c]

MaxLowWatermark == 2

InitialClients ==
    {NetworkStateClient(lw, cm) :
        lw \in 0..MaxLowWatermark, cm \in SUBSET (0..(MaxLowWatermark + 2))}

InitialNetworkStates ==
    {[c \in ClientIds |-> IF c = 0 THEN cl ELSE NetworkStateClient(1, {1, 2})] :
        cl \in InitialClients}

acceptedOf(batch, c) ==
    Cardinality({i \in 1..Len(batch) : batch[i].clientId = c})

nextReqNosAdvanced(a, bucket, batch, r) ==
    /\ nextReqNosExpectable(r.ao)
    /\ \A b \in Buckets, c \in ClientIds :
          /\ r.ao.buckets[b][c] >= a.buckets[b][c]
          /\ (r.ao.buckets[b][c] - a.buckets[b][c]) % NumberOfBuckets = 0
          /\ b # bucket => r.ao.buckets[b][c] = a.buckets[b][c]
    /\ ~r.err =>
          \A c \in ClientIds :
              r.ao.buckets[bucket][c] - a.buckets[bucket][c]
                  >= NumberOfBuckets * acceptedOf(batch, c)

C28_NextReqNoInBucket ==
    /\ nextReqNosExpectable(ao)
    /\ reqOp.op = "newOutstandingReqs" =>
          /\ nextReqNosSmallest(ao)
          /\ \A ns \in InitialNetworkStates :
                /\ nextReqNosExpectable(newOutstandingReqs(ns, <<>>, newSequences).ao)
                /\ nextReqNosSmallest(newOutstandingReqs(ns, <<>>, newSequences).ao)
    /\ \A bucket \in Buckets, seqNo \in SeqIds, batch \in Batches :
          ~sequences[seqNo].allocated =>
              nextReqNosAdvanced(ao, bucket, batch,
                                 applyAcks(ao, sequences, bucket, seqNo, batch))

(* Client 1's request 1 was accepted in bucket 0 and the next expected     *)
(* number skipped the committed request 3.                                 *)
C28_Witness ==
    /\ reqOp.op = "applyAcks"
    /\ ~reqOp.err
    /\ ao.networkState[1].committed = {3}
    /\ ao.buckets[0][1] = 5
    /\ ao.buckets[0][0] = 2

-----------------------------------------------------------------------------
(* C29: no digest is known correct and outstanding at the same time, in    *)
(* any state that newOutstandingReqs, advanceRequests and applyAcks calls  *)
(* lead to.                                                                *)
knownCorrect(a) == {d \in ReqDigests : a.correctRequests[d] # NoAck}

outstandingDigests(a) == {d \in ReqDigests : a.outstandingRequests[d] # 0}

C29_CorrectAndOutstandingDisjoint ==
    knownCorrect(ao) \cap outstandingDigests(ao) = {}

(* Both sets are in use: one digest is known correct while another is      *)
(* outstanding, and a digest that was known correct has been cleared by    *)
(* applyAcks.                                                              *)
C29_Witness ==
    /\ reqOp.op = "applyAcks"
    /\ ~reqOp.err
    /\ knownCorrect(ao) # {}
    /\ outstandingDigests(ao) # {}
    /\ \E s \in SeqIds : sequences[s].allocated /\ sequences[s].registered = {}
                           /\ ao.availableIterator = 2

-----------------------------------------------------------------------------
(* persisted.constructEpochChange.  The records carry the digest of a      *)
(* PEntry or QEntry and the checkpoint value of a CEntry in the field      *)
(* digest.  logEpoch is NilEpoch for the nil pointer.                      *)

MaxEcLog == 5    \* SpecEC: the log holds at most MaxEcLog records
MaxEpoch == 2    \* SpecEC: newEpoch ranges over 0..MaxEpoch

NilEpoch == -1

withDigest(entry, digest) ==
    [type |-> entry.type, seqNo |-> entry.seqNo, epoch |-> entry.epoch,
     digest |-> digest]

SetEntry(epoch, seqNo, digest) == [epoch |-> epoch, seqNo |-> seqNo, digest |-> digest]

Checkpoint(seqNo, value) == [seqNo |-> seqNo, value |-> value]

(* A mutant of shouldExit: the scan goes on until the epoch is above       *)
(* newEpoch.                                                               *)
shouldExitAbove(logEpoch, newEpoch) == logEpoch # NilEpoch /\ logEpoch > newEpoch

(* shouldExit of both passes *)
shouldExit(logEpoch, newEpoch) == logEpoch # NilEpoch /\ logEpoch >= newEpoch

(* onNEntry and onFEntry of both passes *)
logEpochAfter(logEpoch, entry) ==
    IF entry.type \in {"NEntry", "FEntry"} THEN entry.epoch ELSE logEpoch

(* The first pass: pSkips counts the PEntry records of each sequence.      *)
pSkipsAfter(pSkips, entry) ==
    IF entry.type = "PEntry" THEN [pSkips EXCEPT ![entry.seqNo] = @ + 1] ELSE pSkips

(* Both passes return with the number of records they visited.            *)
RECURSIVE countPEntries(_, _, _, _, _)
countPEntriesNext(log, i, newEpoch, logEpoch, pSkips) ==
    IF shouldExit(logEpoch, newEpoch)
    THEN [pSkips |-> pSkips, visited |-> i]
    ELSE countPEntries(log, i + 1, newEpoch, logEpoch, pSkips)

countPEntries(log, i, newEpoch, logEpoch, pSkips) ==
    IF i > Len(log)
    THEN [pSkips |-> pSkips, visited |-> i - 1]
    ELSE countPEntriesNext(log, i, newEpoch, logEpochAfter(logEpoch, log[i].entry),
                           pSkipsAfter(pSkips, log[i].entry))

(* The second pass.  *logEpoch dereferences the nil pointer when no NEntry *)
(* or FEntry has been seen.                                                *)
onPEntry(c, pEntry) ==
    IF c.pSkips[pEntry.seqNo] # 1
    THEN [c EXCEPT !.pSkips[pEntry.seqNo] = @ - 1]
    ELSE IF c.logEpoch = NilEpoch
    THEN [c EXCEPT !.panic = TRUE]
    ELSE [c EXCEPT !.PSet = Append(@, SetEntry(c.logEpoch, pEntry.seqNo,
                                                pEntry.digest))]

onQEntry(c, qEntry) ==
    IF c.logEpoch = NilEpoch
    THEN [c EXCEPT !.panic = TRUE]
    ELSE [c EXCEPT !.QSet = Append(@, SetEntry(c.logEpoch, qEntry.seqNo,
                                                qEntry.digest))]

onCEntry(c, cEntry) ==
    [c EXCEPT !.Checkpoints = Append(@, Checkpoint(cEntry.seqNo, cEntry.digest))]

collectEntry(c, entry) ==
    CASE entry.type = "PEntry" -> onPEntry(c, entry)
      [] entry.type = "QEntry" -> onQEntry(c, entry)
      [] entry.type = "CEntry" -> onCEntry(c, entry)
      [] OTHER -> [c EXCEPT !.logEpoch = logEpochAfter(c.logEpoch, entry)]

RECURSIVE collectEntries(_, _, _, _)
collectEntriesNext(log, i, newEpoch, c) ==
    IF c.panic \/ shouldExit(c.logEpoch, newEpoch)
    THEN [c EXCEPT !.visited = i]
    ELSE collectEntries(log, i + 1, newEpoch, c)

collectEntries(log, i, newEpoch, c) ==
    IF i > Len(log)
    THEN [c EXCEPT !.visited = i - 1]
    ELSE collectEntriesNext(log, i, newEpoch, collectEntry(c, log[i].entry))

constructEpochChangeCounted(p, newEpoch, counted) ==
    collectEntries(p.log, 1, newEpoch,
        [pSkips      |-> counted.pSkips,
         counted     |-> counted.visited,
         visited     |-> 0,
         logEpoch    |-> NilEpoch,
         NewEpoch    |-> newEpoch,
         PSet        |-> <<>>,
         QSet        |-> <<>>,
         Checkpoints |-> <<>>,
         panic       |-> FALSE])

constructEpochChange(p, newEpoch) ==
    constructEpochChangeCounted(p, newEpoch,
        countPEntries(p.log, 1, newEpoch, NilEpoch, [s \in Seqs |-> 0]))

-----------------------------------------------------------------------------
(* SpecEC: a log is loaded record by record, recovered by recoverLog,      *)
(* appended to and truncated; constructEpochChange is called on it at any  *)
(* point.                                                                  *)

EcDigests == {"x", "y"}

EcEntries ==
    {withDigest(PEntry(1), d) : d \in EcDigests}
        \cup {withDigest(PEntry(2), "x")}
        \cup {withDigest(QEntry(1), "x")}
        \cup {withDigest(CEntry(2), "v")}
        \cup {withDigest(NEntry(1, 1), "none")}
        \cup {withDigest(FEntry(0), "none")}

EcFrame == UNCHANGED <<walVars, smVars, reqVars, workVars, clVars>>

EcInit ==
    /\ persisted = newPersisted
    /\ epochChange = [op |-> "load"]
    /\ walPhase = "load"
    /\ walOp = NoOp
    /\ walPrev = newPersisted
    /\ walRet = <<>>
    /\ SMInitValues
    /\ ReqInitValues
    /\ WorkInitValues
    /\ ClInitValues

EcAppendInitialLoad ==
    /\ epochChange.op = "load"
    /\ Len(persisted.log) < MaxEcLog
    /\ \E data \in EcEntries :
         persisted' = appendInitialLoad(persisted, persisted.nextIndex, data).p
    /\ UNCHANGED epochChange
    /\ EcFrame

EcConstructed(newEpoch, c) ==
    epochChange' = [op |-> "constructEpochChange", newEpoch |-> newEpoch,
                    PSet |-> c.PSet, QSet |-> c.QSet,
                    Checkpoints |-> c.Checkpoints, panic |-> c.panic,
                    counted |-> c.counted, visited |-> c.visited,
                    recovered |-> epochChange.op = "recovered"]

(* CompleteInitialization: recoverLog on the loaded log; the commit state  *)
(* then needs the last checkpoint of the log.                              *)
EcRecovered(r) ==
    /\ persisted' = r.p
    /\ epochChange' = [op |-> IF r.panic \/ r.lastCEntry = -1
                               THEN "panic" ELSE "recovered"]

EcRecoverLog ==
    /\ epochChange.op = "load"
    /\ EcRecovered(recoverLog([persisted |-> persisted]))
    /\ EcFrame

EcAppendLogEntry ==
    /\ epochChange.op = "recovered"
    /\ Len(persisted.log) < MaxEcLog
    /\ \E entry \in EcEntries :
         persisted' = appendLogEntry(persisted, entry).p
    /\ UNCHANGED epochChange
    /\ EcFrame

EcTruncate ==
    /\ epochChange.op = "recovered"
    /\ \E lowWatermark \in 1..2 :
         persisted' = truncate(persisted, lowWatermark).p
    /\ UNCHANGED epochChange
    /\ EcFrame

EcConstructEpochChange ==
    /\ epochChange.op \in {"load", "recovered"}
    /\ \E newEpoch \in 0..MaxEpoch :
         EcConstructed(newEpoch, constructEpochChange(persisted, newEpoch))
    /\ UNCHANGED persisted
    /\ EcFrame

EcNext ==
    \/ EcAppendInitialLoad
    \/ EcRecoverLog
    \/ EcAppendLogEntry
    \/ EcTruncate
    \/ EcConstructEpochChange

SpecEC == EcInit /\ [][EcNext]_vars

-----------------------------------------------------------------------------
(* Properties of constructEpochChange, checked under SpecEC *)

setsEpoch(log, i) == log[i].entry.type \in {"NEntry", "FEntry"}

(* The scanned prefix ends with the first NEntry or FEntry whose epoch is  *)
(* at least newEpoch, or with the log.                                     *)
reachesEpoch(log, newEpoch) ==
    {i \in 1..Len(log) : setsEpoch(log, i) /\ log[i].entry.epoch >= newEpoch}

scanEnd(log, newEpoch) ==
    IF reachesEpoch(log, newEpoch) = {}
    THEN Len(log)
    ELSE CHOOSE i \in reachesEpoch(log, newEpoch) :
             \A j \in reachesEpoch(log, newEpoch) : i <= j

scannedOfType(log, newEpoch, type) ==
    {i \in 1..scanEnd(log, newEpoch) : log[i].entry.type = type}

(* The positions of the last PEntry of each sequence number. *)
lastPEntries(log, newEpoch) ==
    {i \in scannedOfType(log, newEpoch, "PEntry") :
        \A j \in scannedOfType(log, newEpoch, "PEntry") :
            log[j].entry.seqNo = log[i].entry.seqNo => j <= i}

(* The epoch in force at position i: that of the last NEntry or FEntry     *)
(* before it.                                                              *)
epochAt(log, i) ==
    IF \E j \in 1..i : setsEpoch(log, j)
    THEN log[CHOOSE j \in 1..i : setsEpoch(log, j)
                 /\ \A k \in 1..i : setsEpoch(log, k) => k <= j].entry.epoch
    ELSE NilEpoch

(* The members of a set of positions, in log order. *)
RECURSIVE inLogOrder(_)
inLogOrder(S) ==
    IF S = {} THEN <<>>
    ELSE <<CHOOSE i \in S : \A j \in S : i <= j>>
             \o inLogOrder(S \ {CHOOSE i \in S : \A j \in S : i <= j})

setEntriesAt(log, S) ==
    [k \in 1..Cardinality(S) |->
        SetEntry(epochAt(log, inLogOrder(S)[k]),
                 log[inLogOrder(S)[k]].entry.seqNo,
                 log[inLogOrder(S)[k]].entry.digest)]

checkpointsAt(log, S) ==
    [k \in 1..Cardinality(S) |->
        Checkpoint(log[inLogOrder(S)[k]].entry.seqNo,
                   log[inLogOrder(S)[k]].entry.digest)]

(* A PEntry that is not skipped, or a QEntry, stands before every NEntry   *)
(* and FEntry of the log: the call reads the epoch through a nil pointer.  *)
readsNilEpoch(log, newEpoch) ==
    \E i \in lastPEntries(log, newEpoch) \cup scannedOfType(log, newEpoch, "QEntry") :
        epochAt(log, i) = NilEpoch

epochChangeOf(log, newEpoch, ec) ==
    /\ ec.PSet = setEntriesAt(log, lastPEntries(log, newEpoch))
    /\ ec.QSet = setEntriesAt(log, scannedOfType(log, newEpoch, "QEntry"))
    /\ ec.Checkpoints = checkpointsAt(log, scannedOfType(log, newEpoch, "CEntry"))
    /\ \A j, k \in 1..Len(ec.PSet) : ec.PSet[j].seqNo = ec.PSet[k].seqNo => j = k
    /\ {ec.PSet[k].seqNo : k \in 1..Len(ec.PSet)}
          = {log[i].entry.seqNo : i \in scannedOfType(log, newEpoch, "PEntry")}

(* C30: every call of constructEpochChange(newEpoch) returns, with a       *)
(* prepare-set of exactly one entry for each distinct sequence number that *)
(* has a PEntry in the scanned prefix, carrying the digest of the last     *)
(* such PEntry; a queue-set of one entry per QEntry and a checkpoint-set   *)
(* of one entry per CEntry of the prefix; all three in log order.          *)
C30_Original ==
    epochChange.op = "constructEpochChange" =>
        /\ ~epochChange.panic
        /\ epochChangeOf(persisted.log, epochChange.newEpoch, epochChange)

-----------------------------------------------------------------------------
(* C31: the first pass of constructEpochChange visits the records up to    *)
(* and including the first NEntry or FEntry whose epoch is at least        *)
(* newEpoch (the whole log when there is none), and the second pass of a   *)
(* call that returns visits the same records.  Every entry of the          *)
(* prepare-set and of the queue-set carries the epoch of the last NEntry   *)
(* or FEntry before its record, and that epoch is below newEpoch.          *)
taggedBelow(set, newEpoch) ==
    \A k \in 1..Len(set) : set[k].epoch # NilEpoch /\ set[k].epoch < newEpoch

endsScan(log, newEpoch, n) ==
    /\ n = scanEnd(log, newEpoch)
    /\ \A i \in 1..(n - 1) : ~(setsEpoch(log, i) /\ log[i].entry.epoch >= newEpoch)
    /\ n < Len(log) => setsEpoch(log, n) /\ log[n].entry.epoch >= newEpoch

C31_SamePrefixEpochBelow ==
    epochChange.op = "constructEpochChange" =>
        /\ endsScan(persisted.log, epochChange.newEpoch, epochChange.counted)
        /\ ~epochChange.panic =>
              /\ epochChange.visited = epochChange.counted
              /\ taggedBelow(epochChange.PSet, epochChange.newEpoch)
              /\ taggedBelow(epochChange.QSet, epochChange.newEpoch)
              /\ epochChange.PSet = setEntriesAt(persisted.log,
                     lastPEntries(persisted.log, epochChange.newEpoch))
              /\ epochChange.QSet = setEntriesAt(persisted.log,
                     scannedOfType(persisted.log, epochChange.newEpoch, "QEntry"))

(* A call that returned a prepare-set and a queue-set entry of epoch 0 and *)
(* left a PEntry behind the NEntry of epoch 1 unvisited.                   *)
C31_Witness ==
    /\ epochChange.op = "constructEpochChange"
    /\ ~epochChange.panic
    /\ epochChange.newEpoch = 1
    /\ epochChange.visited = 4
    /\ Len(persisted.log) = 5
    /\ persisted.log[5].entry.type = "PEntry"
    /\ Len(epochChange.PSet) = 1 /\ epochChange.PSet[1].epoch = 0
    /\ Len(epochChange.QSet) = 1 /\ epochChange.QSet[1].epoch = 0

-----------------------------------------------------------------------------
(* C32: constructEpochChange returns on every log that initial load,       *)
(* recoverLog, appends and truncations lead to: no PEntry or QEntry it     *)
(* needs the epoch for stands before every NEntry and FEntry of the        *)
(* in-memory log.                                                          *)
C32_ConstructEpochChangeNeverFails ==
    (epochChange.op = "constructEpochChange" /\ epochChange.recovered) =>
        /\ ~epochChange.panic
        /\ ~readsNilEpoch(persisted.log, epochChange.newEpoch)

-----------------------------------------------------------------------------
(* C33: once initialization has completed, every append and truncation     *)
(* leaves a non-empty log whose indices go up by one from head to tail and *)
(* whose nextIndex is the tail's index plus one; the head's index never    *)
(* goes down; and no append finds the log empty (appendLogEntry would      *)
(* panic).                                                                 *)
wellLinked(p) ==
    /\ p.log # <<>>
    /\ Contiguous(p.log)
    /\ p.nextIndex = p.log[Len(p.log)].index + 1

C33_LogStaysLinked ==
    [][ /\ walPhase = "run" => walPhase' = "run"
        /\ walPhase' = "run" => wellLinked(persisted')
        /\ (walPhase = "run" /\ walPhase' = "run") =>
              /\ headIndex(persisted') >= headIndex(persisted)
              /\ persisted'.nextIndex >= persisted.nextIndex
      ]_vars

(* A truncation of a full log that moved the head by two records.          *)
C33_Witness ==
    /\ walPhase = "run"
    /\ walOp.op = "truncate"
    /\ Len(walPrev.log) = MaxLog
    /\ Len(persisted.log) = 1
    /\ headIndex(persisted) = headIndex(walPrev) + 2
    /\ persisted.nextIndex = headIndex(persisted) + 1

-----------------------------------------------------------------------------
(* C34: for every loaded log that holds a CEntry and that recoverLog       *)
(* accepts, the log recoverLog leaves is a suffix of the loaded log that   *)
(* still holds the loaded log's last CEntry, whatever truncations the      *)
(* FEntry records caused.                                                  *)
lastCEntryRecord(log) ==
    log[CHOOSE i \in 1..Len(log) :
            /\ log[i].entry.type = "CEntry"
            /\ \A j \in (i + 1)..Len(log) : log[j].entry.type # "CEntry"]

isSuffix(kept, log) ==
    /\ Len(kept) <= Len(log)
    /\ kept = SubSeq(log, Len(log) - Len(kept) + 1, Len(log))

keepsLastCEntry(log, r) ==
    ~r.panic =>
        /\ isSuffix(r.p.log, log)
        /\ \E k \in 1..Len(r.p.log) : r.p.log[k] = lastCEntryRecord(log)
        /\ r.lastCEntry = lastCEntryRecord(log).entry.seqNo

C34_RecoveryKeepsLastCheckpoint ==
    (walPhase = "load" /\ HasCEntry(persisted.log)) =>
        keepsLastCEntry(persisted.log, recoverLog(loaded(persisted)))

(* A loaded log whose recovery truncates the first record away and keeps   *)
(* the last checkpoint as the head.                                        *)
C34_Witness ==
    /\ walPhase = "load"
    /\ Len(persisted.log) = MaxLog
    /\ persisted.log[1].entry.type = "CEntry"
    /\ persisted.log[2].entry = CEntry(CheckpointInterval)
    /\ persisted.log[3].entry.type = "FEntry"
    /\ ~recoverLog(loaded(persisted)).panic
    /\ Len(recoverLog(loaded(persisted)).actions) = 1
    /\ recoverLog(loaded(persisted)).p.log[1].entry = CEntry(CheckpointInterval)

-----------------------------------------------------------------------------
(* SpecFetch: a recovered StateMachine whose epoch is in any of its states *)
(* and, while fetching, awaits any of the batches 1..MaxFetch, fed         *)
(* AddResults events with hash results: verifications of the batches      *)
(* 1..MaxFetch and the digest of a batch above them.                       *)

MaxFetch == 3

FetchSeqs == 1..MaxFetch

recoveredMachine ==
    applyEvent(loaded(appendInitialLoad(newPersisted, 0, CEntry(0)).p),
               completeInitializationEvent).m

FetchResults ==
    {VerifyBatch(s, b) : s \in FetchSeqs, b \in BOOLEAN}
        \cup {BatchResult(MaxFetch + 1)}

FetchResultLists ==
    {<<h>> : h \in FetchResults} \cup {<<g, h>> : g, h \in FetchResults}

FetchInit ==
    /\ smState = recoveredMachine.state
    /\ persisted = recoveredMachine.persisted
    /\ checkpointTracker = recoveredMachine.checkpointTracker
    /\ commitState = recoveredMachine.commitState
    /\ clientTracker = recoveredMachine.clientTracker
    /\ \E awaited \in SUBSET FetchSeqs :
          batchTracker = [recoveredMachine.batchTracker
                              EXCEPT !.fetchInFlight = awaited]
    /\ \E state \in EpochStates :
          epochTracker = [recoveredMachine.epochTracker EXCEPT !.state = state]
    /\ hasFetchInFlight(batchTracker) => epochTracker.state = "etFetching"
    /\ aborted = FALSE
    /\ lastEvent = [type |-> "none"]
    /\ actions = <<>>
    /\ hist = [commits |-> <<>>, gc |-> noGC, drains |-> <<>>,
               advances |-> <<>>, before |-> <<>>]
    /\ walPhase = "load"
    /\ walOp = NoOp
    /\ walPrev = newPersisted
    /\ walRet = <<>>
    /\ ReqInitValues
    /\ WorkInitValues
    /\ EcInitValues
    /\ ClInitValues

FetchAddResults ==
    \E digests \in FetchResultLists :
        Apply([type |-> "AddResults",
               results |-> [checkpoints |-> <<>>, digests |-> digests]])

FetchNext == FetchAddResults \/ Tick

SpecFetch == FetchInit /\ [][FetchNext]_vars

(* The epoch tracker et is the tracker before with nothing changed but the *)
(* batch digests it has taken.                                             *)
butBatchDigests(et, before) ==
    [et EXCEPT !.batchDigests = before.batchDigests] = before

(* C35: an AddResults event changes the state of the current epoch only    *)
(* through fetchNewEpochState, and only when the epoch was in the fetching *)
(* state and, with the verified batches applied to the batch tracker, no   *)
(* fetch is in flight; with a fetch still in flight, or in any other       *)
(* state, the epoch tracker is as it was but for the batch digests the     *)
(* event handed to it.                                                     *)
C35_FetchGatesNewEpochState ==
    [][ (lastEvent'.type = "AddResults" /\ ~aborted') =>
          /\ epochTracker'.state # epochTracker.state =>
                /\ epochTracker.state = "etFetching"
                /\ ~hasFetchInFlight(batchTracker')
                /\ butBatchDigests(epochTracker', fetchNewEpochState(epochTracker).et)
          /\ (hasFetchInFlight(batchTracker') \/ epochTracker.state # "etFetching")
                => butBatchDigests(epochTracker', epochTracker)
      ]_vars

(* Every batch was awaited and has been verified, and with the last one    *)
(* the epoch left the fetching state.                                      *)
C35_Witness ==
    /\ lastEvent.type = "AddResults"
    /\ batchTracker.batches = FetchSeqs
    /\ ~hasFetchInFlight(batchTracker)
    /\ epochTracker.state = "etActive"

-----------------------------------------------------------------------------
(* Client.  requests is the list of pushed request numbers in list order;  *)
(* reqNoMap[n] is the clientRequest of n, with present FALSE for a number  *)
(* that is not in the map.  NilDigest is the nil byte slice.  The request  *)
(* store holds the allocation of each request number and the stored        *)
(* requests; fails names the store call that returns an error during the   *)
(* handler, "none" when every call succeeds.                               *)

MaxClReqNo == 2

MaxClCalls == 4

ClReqNos == 0..MaxClReqNo

ClData == {"p", "q"}

NilDigest == "nil"

(* hasher.Sum: distinct data have distinct digests. *)
hashOf(data) == IF data = "p" THEN "hp" ELSE "hq"

absentRequest ==
    [present |-> FALSE, localAllocationDigest |-> NilDigest,
     remoteCorrectDigests |-> {}]

clientRequest ==
    [present |-> TRUE, localAllocationDigest |-> NilDigest,
     remoteCorrectDigests |-> {}]

newClient ==
    [requests |-> <<>>, reqNoMap |-> [n \in ClReqNos |-> absentRequest],
     nextReqNo |-> 0]

pushBack(c, reqNo) ==
    [c EXCEPT !.requests = Append(@, reqNo), !.reqNoMap[reqNo] = clientRequest]

(* allocate: [client, digest, err] *)
allocateNew(c, store, reqNo, fails) ==
    IF fails = "GetAllocation"
    THEN [client |-> c, digest |-> NilDigest, err |-> "GetAllocation"]
    ELSE [client |-> [c EXCEPT !.reqNoMap[reqNo].localAllocationDigest =
                                   store.allocations[reqNo]],
          digest |-> store.allocations[reqNo],
          err    |-> "none"]

allocate(c, store, reqNo, fails) ==
    IF c.reqNoMap[reqNo].present
    THEN [client |-> c, digest |-> c.reqNoMap[reqNo].localAllocationDigest,
          err |-> "none"]
    ELSE allocateNew(pushBack(c, reqNo), store, reqNo, fails)

(* NextReqNo: [ret, err] *)
NextReqNo(c) ==
    IF Len(c.requests) = 0
    THEN [ret |-> 0, err |-> "ErrClientNotExist"]
    ELSE [ret |-> c.nextReqNo, err |-> "none"]

(* One pass of the loop of Process over ca.AllocatedRequests, for the      *)
(* request at position i whose allocate call returned a: [client,          *)
(* persistedReqs, err].  The client's mutex is held for the allocate call  *)
(* only, so other calls on the client run between two passes.              *)
ProcessAllocated(reqs, i, persistedReqs, a) ==
    [client        |-> a.client,
     persistedReqs |-> IF a.err = "none" /\ a.digest # NilDigest
                       THEN Append(persistedReqs, RequestAck(0, reqs[i], a.digest))
                       ELSE persistedReqs,
     err           |-> a.err]

(* The Sync behind the loop and the return of Process: [results, err].    *)
(* On an error the results are nil.                                        *)
ProcessSync(persistedReqs, fails) ==
    IF fails = "Sync"
    THEN [results |-> NilResults, err |-> "Sync"]
    ELSE [results |-> [isNil |-> FALSE, PersistedRequests |-> persistedReqs],
          err     |-> "none"]

(* Propose: [client, store, cw, chans, err] *)
proposeReturn(c, store, w, ch, err) ==
    [client |-> c, store |-> store, cw |-> w, chans |-> ch, err |-> err]

putRequest(store, ack) == [store EXCEPT !.requests = @ \cup {ack}]

putAllocation(store, reqNo, digest) ==
    [store EXCEPT !.allocations[reqNo] = digest]

(* A mutant of ProposeStored: the ack goes to the client work whether or   *)
(* not the request was allocated before.                                   *)
ProposeStoredAlways(c, store, w, ch, reqNo, digest, previouslyAllocated, added) ==
    proposeReturn([c EXCEPT !.reqNoMap[reqNo].localAllocationDigest = digest],
                  store, added.cw, added.chans, "none")

ProposeStored(c, store, w, ch, reqNo, digest, previouslyAllocated, added) ==
    proposeReturn([c EXCEPT !.reqNoMap[reqNo].localAllocationDigest = digest],
                  store,
                  IF previouslyAllocated THEN added.cw ELSE w,
                  IF previouslyAllocated THEN added.chans ELSE ch,
                  "none")

ProposeStore(c, store, w, ch, reqNo, digest, fails, previouslyAllocated) ==
    IF fails = "PutRequest"
    THEN proposeReturn(c, store, w, ch, "PutRequest")
    ELSE IF fails = "PutAllocation"
    THEN proposeReturn(c, putRequest(store, RequestAck(0, reqNo, digest)),
                       w, ch, "PutAllocation")
    ELSE ProposeStored(c,
             putAllocation(putRequest(store, RequestAck(0, reqNo, digest)),
                           reqNo, digest),
             w, ch, reqNo, digest, previouslyAllocated,
             addPersistedReq(w, ch, RequestAck(0, reqNo, digest)))

(* A mutant of ProposeRequest: the local allocation digest is not looked   *)
(* at.                                                                     *)
ProposeRequestOverwriting(c, store, w, ch, reqNo, digest, fails, previouslyAllocated) ==
    ProposeStore(c, store, w, ch, reqNo, digest, fails, previouslyAllocated)

ProposeRequest(c, store, w, ch, reqNo, digest, fails, previouslyAllocated) ==
    IF c.reqNoMap[reqNo].localAllocationDigest # NilDigest
    THEN IF c.reqNoMap[reqNo].localAllocationDigest = digest
         THEN proposeReturn(c, store, w, ch, "none")
         ELSE proposeReturn(c, store, w, ch, "differentDigest")
    ELSE IF /\ c.reqNoMap[reqNo].remoteCorrectDigests # {}
            /\ digest \notin c.reqNoMap[reqNo].remoteCorrectDigests
    THEN proposeReturn(c, store, w, ch, "otherCorrectDigest")
    ELSE ProposeStore(c, store, w, ch, reqNo, digest, fails, previouslyAllocated)

ProposeNext(c, store, w, ch, reqNo, digest, fails) ==
    ProposeRequest(IF c.reqNoMap[reqNo].present
                   THEN [c EXCEPT !.nextReqNo = @ + 1]
                   ELSE pushBack([c EXCEPT !.nextReqNo = @ + 1], reqNo),
                   store, w, ch, reqNo, digest, fails, c.reqNoMap[reqNo].present)

Propose(c, store, w, ch, reqNo, data, fails) ==
    IF Len(c.requests) = 0
    THEN proposeReturn(c, store, w, ch, "ErrClientNotExist")
    ELSE IF reqNo < c.nextReqNo
    THEN proposeReturn(c, store, w, ch, "none")
    ELSE IF reqNo > c.nextReqNo
    THEN proposeReturn(c, store, w, ch, "mustSubmitNext")
    ELSE ProposeNext(c, store, w, ch, reqNo, hashOf(data), fails)

-----------------------------------------------------------------------------
(* SpecClient: one client of a ClientProcessor whose request store is new  *)
(* or holds the allocation of request 0 from an earlier run.  One          *)
(* goroutine calls Process and others call Propose and NextReqNo: Process  *)
(* holds the client's mutex for one allocate at a time, so the other calls *)
(* run between its allocations and before its Sync.  clientOp keeps the    *)
(* last step with its arguments and what it returned, the client and the   *)
(* store before the last call, the Process call in progress (proc), the    *)
(* acks returned by Process so far, the request numbers of the Propose     *)
(* calls that were processed and returned no error, and in log the         *)
(* allocate calls and the accepted proposals in the order they happened;   *)
(* an allocate call is ok when its Process call has returned results.      *)
(* storeFirst is the store the processor started with.                     *)

ClAllocatedRequests == {<<n>> : n \in ClReqNos} \cup {<<0, 1>>}

newRequestStore(digest) ==
    [allocations |-> [n \in ClReqNos |-> IF n = 0 THEN digest ELSE NilDigest],
     requests    |-> IF digest = NilDigest THEN {} ELSE {RequestAck(0, 0, digest)}]

ClFrame == UNCHANGED <<persisted, walVars, smVars, reqVars, ecVars>>

(* No Process call is in progress. *)
IdleProcess ==
    [pc |-> "idle", reqs |-> <<>>, i |-> 1, persistedReqs |-> <<>>,
     fails |-> "none", logStart |-> 0]

ClInit ==
    /\ clientC = newClient
    /\ \E digest \in {NilDigest} \cup {hashOf(d) : d \in ClData} :
          requestStore = newRequestStore(digest)
    /\ clientOp = [op |-> "none", reqs |-> <<>>, reqNo |-> 0, data |-> "none",
                   fails |-> "none", err |-> "none", results |-> NilResults,
                   before |-> newClient, storeBefore |-> requestStore,
                   storeFirst |-> requestStore,
                   workBefore |-> newClientWork,
                   calls |-> 0, returned |-> <<>>, accepted |-> <<>>,
                   log |-> <<>>, proc |-> IdleProcess]
    /\ cw = newClientWork
    /\ workChans = [made |-> 0, closed |-> {}, panicked |-> FALSE]
    /\ consumer = [pc |-> "Ready", c |-> 0]
    /\ workLog = [added |-> <<>>, returned |-> <<>>, calls |-> 0, last |-> NilResults]
    /\ persisted = newPersisted
    /\ walPhase = "load"
    /\ walOp = NoOp
    /\ walPrev = newPersisted
    /\ walRet = <<>>
    /\ SMInitValues
    /\ ReqInitValues
    /\ EcInitValues

ClCalled(op) ==
    [clientOp EXCEPT !.op = op, !.reqs = <<>>, !.reqNo = 0, !.data = "none",
                     !.fails = "none", !.err = "none", !.results = NilResults,
                     !.before = clientC, !.storeBefore = requestStore,
                     !.workBefore = cw, !.calls = @ + 1]

(* A step of the Process call in progress. *)
ClStepped(op) ==
    [clientOp EXCEPT !.op = op, !.reqs = clientOp.proc.reqs, !.reqNo = 0,
                     !.data = "none", !.fails = clientOp.proc.fails,
                     !.err = "none", !.results = NilResults]

(* The log with the allocations of the Process call in progress marked as *)
(* returned.                                                               *)
ClProcessReturnedLog ==
    [i \in 1..Len(clientOp.log) |->
        IF i > clientOp.proc.logStart /\ clientOp.log[i].op = "allocate"
        THEN [clientOp.log[i] EXCEPT !.ok = TRUE]
        ELSE clientOp.log[i]]

(* The processor is handed the client actions of the state machine: no    *)
(* lock is taken yet.                                                      *)
ClProcess ==
    /\ clientOp.calls < MaxClCalls
    /\ clientOp.proc.pc = "idle"
    /\ \E reqs \in ClAllocatedRequests, fails \in {"none", "GetAllocation", "Sync"} :
          clientOp' = [ClCalled("Process") EXCEPT
                          !.reqs = reqs, !.fails = fails,
                          !.proc = [pc |-> "allocating", reqs |-> reqs, i |-> 1,
                                    persistedReqs |-> <<>>, fails |-> fails,
                                    logStart |-> Len(clientOp.log)]]
    /\ UNCHANGED <<clientC, requestStore, workVars>>
    /\ ClFrame

ClProcessAllocated(pr, r) ==
    /\ clientC' = r.client
    /\ clientOp' = [ClStepped("allocate") EXCEPT
                       !.reqNo = pr.reqs[pr.i],
                       !.err = r.err,
                       !.proc = IF r.err # "none"
                                THEN IdleProcess
                                ELSE [pr EXCEPT !.i = @ + 1,
                                                !.persistedReqs = r.persistedReqs],
                       !.log = Append(@, [op |-> "allocate",
                                          reqNo |-> pr.reqs[pr.i],
                                          ok |-> FALSE])]

(* Process allocates its next request under the client's mutex; an error  *)
(* of the request store ends the call.                                     *)
ClProcessAllocate ==
    /\ clientOp.proc.pc = "allocating"
    /\ clientOp.proc.i <= Len(clientOp.proc.reqs)
    /\ ClProcessAllocated(clientOp.proc,
                          ProcessAllocated(clientOp.proc.reqs, clientOp.proc.i,
                                           clientOp.proc.persistedReqs,
                                           allocate(clientC, requestStore,
                                                    clientOp.proc.reqs[clientOp.proc.i],
                                                    clientOp.proc.fails)))
    /\ UNCHANGED <<requestStore, workVars>>
    /\ ClFrame

ClProcessSynced(r) ==
    clientOp' = [ClStepped("Sync") EXCEPT
                    !.err = r.err,
                    !.results = r.results,
                    !.returned = @ \o r.results.PersistedRequests,
                    !.proc = IdleProcess,
                    !.log = IF r.err = "none" THEN ClProcessReturnedLog ELSE @]

(* Process has allocated all its requests, syncs the request store with   *)
(* no lock held and returns.                                               *)
ClProcessSync ==
    /\ clientOp.proc.pc = "allocating"
    /\ clientOp.proc.i > Len(clientOp.proc.reqs)
    /\ ClProcessSynced(ProcessSync(clientOp.proc.persistedReqs, clientOp.proc.fails))
    /\ UNCHANGED <<clientC, requestStore, workVars>>
    /\ ClFrame

proposeAccepted(c, reqNo, r) ==
    r.err = "none" /\ Len(c.requests) > 0 /\ reqNo = c.nextReqNo

ClProposed(reqNo, data, fails, r) ==
    /\ clientC' = r.client
    /\ requestStore' = r.store
    /\ cw' = r.cw
    /\ workChans' = r.chans
    /\ clientOp' = [ClCalled("Propose") EXCEPT
                       !.reqNo = reqNo, !.data = data, !.fails = fails,
                       !.err = r.err,
                       !.accepted = IF proposeAccepted(clientC, reqNo, r)
                                    THEN Append(@, reqNo) ELSE @,
                       !.log = IF proposeAccepted(clientC, reqNo, r)
                               THEN Append(@, [op |-> "Propose", reqNo |-> reqNo,
                                               ok |-> TRUE])
                               ELSE @]

(* The application proposes a request. *)
ClPropose ==
    /\ clientOp.calls < MaxClCalls
    /\ \E reqNo \in ClReqNos, data \in ClData,
          fails \in {"none", "PutRequest", "PutAllocation"} :
          ClProposed(reqNo, data, fails,
                     Propose(clientC, requestStore, cw, workChans,
                             reqNo, data, fails))
    /\ UNCHANGED <<consumer, workLog>>
    /\ ClFrame

ClNextReqNoReturned(r) ==
    clientOp' = [ClCalled("NextReqNo") EXCEPT !.reqNo = r.ret, !.err = r.err]

(* The application asks for the next request number. *)
ClNextReqNo ==
    /\ clientOp.calls < MaxClCalls
    /\ ClNextReqNoReturned(NextReqNo(clientC))
    /\ UNCHANGED <<clientC, requestStore, workVars>>
    /\ ClFrame

ClNext == ClProcess \/ ClProcessAllocate \/ ClProcessSync \/ ClPropose \/ ClNextReqNo

SpecClient == ClInit /\ [][ClNext]_vars

-----------------------------------------------------------------------------
(* C36: for a client with at least one allocation, Propose below           *)
(* nextReqNo returns no error and changes neither the client, the store    *)
(* nor the client work; Propose above nextReqNo returns an error and       *)
(* changes nothing; a Propose at nextReqNo that returns no error advances  *)
(* nextReqNo by one; and the request numbers of the proposals accepted so  *)
(* far are consecutive.                                                    *)
proposeChangedNothing ==
    /\ clientC = clientOp.before
    /\ requestStore = clientOp.storeBefore
    /\ cw = clientOp.workBefore

consecutive(reqNos) ==
    \A k \in 1..(Len(reqNos) - 1) : reqNos[k + 1] = reqNos[k] + 1

C36_ProposalsInOrderGapFree ==
    /\ (clientOp.op = "Propose" /\ Len(clientOp.before.requests) > 0) =>
          /\ clientOp.reqNo < clientOp.before.nextReqNo =>
                clientOp.err = "none" /\ proposeChangedNothing
          /\ clientOp.reqNo > clientOp.before.nextReqNo =>
                clientOp.err # "none" /\ proposeChangedNothing
          /\ (clientOp.reqNo = clientOp.before.nextReqNo /\ clientOp.err = "none") =>
                clientC.nextReqNo = clientOp.before.nextReqNo + 1
    /\ consecutive(clientOp.accepted)

-----------------------------------------------------------------------------
(* C37: a Propose that returns an error leaves the client as it was, with  *)
(* nextReqNo not advanced, so that the same request number proposed again  *)
(* is not below nextReqNo and is processed.                                *)
C37_ErrorLeavesClientUnchanged ==
    (clientOp.op = "Propose" /\ clientOp.err # "none") =>
        /\ clientC = clientOp.before
        /\ clientC.nextReqNo = clientOp.before.nextReqNo
        /\ Len(clientC.requests) > 0 => clientOp.reqNo >= clientC.nextReqNo

-----------------------------------------------------------------------------
(* One allocate call and one accepted Propose for request number n, in    *)
(* either order, and how often the ack of n was reported.                  *)
logPositions(op, n) ==
    {i \in 1..Len(clientOp.log) :
        clientOp.log[i].op = op /\ clientOp.log[i].reqNo = n}

oneOfEach(n) ==
    /\ Cardinality(logPositions("allocate", n)) = 1
    /\ Cardinality(logPositions("Propose", n)) = 1
    /\ \A i \in logPositions("allocate", n) : clientOp.log[i].ok

proposedFirst(n) ==
    \A i \in logPositions("Propose", n), j \in logPositions("allocate", n) : i < j

acksOf(acks, n) == Cardinality({i \in 1..Len(acks) : acks[i].reqNo = n})

inProcessResult(n) == acksOf(clientOp.returned, n)

throughClientWork(n) == acksOf(cw.results.PersistedRequests, n)

(* C38 as stated: with one accepted Propose and one allocate of a request  *)
(* number, the ack is reported once, in the Process result if the Propose  *)
(* came first and through the client work if the allocate came first.      *)
C38_Original ==
    \A n \in ClReqNos :
        oneOfEach(n) =>
            /\ inProcessResult(n) + throughClientWork(n) = 1
            /\ proposedFirst(n) => inProcessResult(n) = 1
            /\ ~proposedFirst(n) => throughClientWork(n) = 1

(* C38: with one accepted Propose and one allocate of a request number,    *)
(* the ack is reported once: in the Process result if the Propose came     *)
(* first or if allocate found the allocation in the request store, and     *)
(* through the client work if allocate came first and found none.          *)
C38_AckReportedOnce ==
    \A n \in ClReqNos :
        oneOfEach(n) =>
            /\ inProcessResult(n) + throughClientWork(n) = 1
            /\ proposedFirst(n) => inProcessResult(n) = 1
            /\ (~proposedFirst(n) /\ clientOp.storeFirst.allocations[n] = NilDigest)
                  => throughClientWork(n) = 1
            /\ (~proposedFirst(n) /\ clientOp.storeFirst.allocations[n] # NilDigest)
                  => inProcessResult(n) = 1

(* Request 1 was allocated and then proposed and its ack went to the       *)
(* client work; request 0 was proposed and then allocated and its ack came *)
(* back from Process.                                                      *)
C38_Witness ==
    /\ oneOfEach(0) /\ proposedFirst(0) /\ inProcessResult(0) = 1
    /\ oneOfEach(1) /\ ~proposedFirst(1) /\ throughClientWork(1) = 1

-----------------------------------------------------------------------------
(* The local allocation digest of the proposed request number was set      *)
(* before the last Propose and is not the digest of the proposed data.     *)
proposedOtherDigest ==
    /\ clientOp.op = "Propose"
    /\ Len(clientOp.before.requests) > 0
    /\ clientOp.before.reqNoMap[clientOp.reqNo].localAllocationDigest
           \notin {NilDigest, hashOf(clientOp.data)}

digestsKept ==
    \A n \in ClReqNos :
        clientOp.before.reqNoMap[n].localAllocationDigest # NilDigest =>
            clientC.reqNoMap[n].localAllocationDigest
                = clientOp.before.reqNoMap[n].localAllocationDigest

(* C39 as stated: every Propose for a request number whose local           *)
(* allocation digest differs from the digest of the data returns an error  *)
(* and leaves the digest as it was, and no call changes a digest that is   *)
(* set.                                                                    *)
C39_Original ==
    /\ proposedOtherDigest => clientOp.err # "none"
    /\ digestsKept

(* C39: a Propose at nextReqNo for a request number whose local allocation *)
(* digest differs from the digest of the data returns the digest error and *)
(* writes nothing to the request store or the client work; and no call     *)
(* changes a local allocation digest that is set.                          *)
C39_DigestConflictRejected ==
    /\ (proposedOtherDigest /\ clientOp.reqNo = clientOp.before.nextReqNo) =>
          /\ clientOp.err = "differentDigest"
          /\ requestStore = clientOp.storeBefore
          /\ cw = clientOp.workBefore
    /\ digestsKept

(* Request 0 was allocated with the digest the store held for it and then  *)
(* proposed with other data.                                               *)
C39_Witness ==
    /\ proposedOtherDigest
    /\ clientOp.reqNo = clientOp.before.nextReqNo
    /\ clientOp.err = "differentDigest"
    /\ clientC.reqNoMap[0].localAllocationDigest = hashOf("p")
    /\ clientOp.data = "q"

-----------------------------------------------------------------------------
(* SpecWorkFree: Ready, Results and addPersistedReq are called in any      *)
(* order; each runs under the mutex.  At most MaxChans channels are made   *)
(* and Results is called at most MaxChans times.                           *)

MaxChans == 3

FreeReadyReturned(r) ==
    /\ cw' = r.cw
    /\ workChans' = r.chans
    /\ consumer' = [consumer EXCEPT !.c = r.ret]

FreeReady ==
    /\ cw.readyC = 0 => workChans.made < MaxChans
    /\ ~workChans.panicked
    /\ FreeReadyReturned(Ready(cw, workChans))
    /\ UNCHANGED workLog
    /\ WorkFrame

FreeResults ==
    /\ workLog.calls < MaxChans
    /\ WorkResultsReturned(Results(cw))
    /\ UNCHANGED <<workChans, consumer>>
    /\ WorkFrame

FreeNext == FreeReady \/ FreeResults \/ WorkAddPersistedReq

SpecWorkFree == WorkInit /\ [][FreeNext]_vars

(* C40: in every order of the calls no channel is closed twice, and while  *)
(* readyC is set it is closed exactly when results is not nil.             *)
C40_ClosedIffResultsPending ==
    /\ ~workChans.panicked
    /\ cw.readyC # 0 => (cw.readyC \in workChans.closed <=> ~cw.results.isNil)

(* Two channels were made, with a Results call between them, and each was  *)
(* closed once; the second is the current one and results are pending.     *)
C40_Witness ==
    /\ workChans.made = 2
    /\ workChans.closed = {1, 2}
    /\ cw.readyC = 2
    /\ ~cw.results.isNil
    /\ workLog.calls = 1

====
